---- MODULE Spec2Model ----
(***************************************************************************)
(* A model of jinpress' development server (src/jinpress/server.py): the   *)
(* DevServer start/stop sequence, the watchdog event handler               *)
(* LiveReloadHandler with its debounce timer, the rebuild run by the timer *)
(* thread, and the rebuild timestamps shared with the HTTP handler.        *)
(*                                                                         *)
(* Threads: the main thread (DevServer.start, serve_forever, stop), the    *)
(* watcher threads that deliver filesystem events, and one thread per      *)
(* threading.Timer, which runs LiveReloadHandler._rebuild when it fires.   *)
(* Statements that touch shared attributes are separate steps.             *)
(***************************************************************************)
EXTENDS Integers, Sequences, FiniteSets, TLC

\* ------------------------------------------------------------------ bounds
\* Qualifying events handled in one run (each creates one threading.Timer).
MaxEvents == 2
\* Largest value of the clock, in ticks.
MaxClock == 2
\* Clock ticks per millisecond: time.time() is finer than the integer
\* milliseconds the livereload protocol exchanges.
TicksPerMs == 2

\* ------------------------------------------------------- program constants
DEFAULT_PORT == 3000
MAX_PORT_ATTEMPTS == 10

\* Qualifying changes of the sources in one run of the rebuild cycle.
MaxEdits == 3
Edits == 1..MaxEdits

\* Threads that may call the handler's on_* methods.  watchdog's observer
\* dispatches from one thread; the handler's lock allows for more.
Watchers == {"w1", "w2"}
ObserverThread == {"w1"}
Timers == 1..MaxEvents

\* ------------------------------------------------- paths and event filter
\* A file name is a sequence of characters, a path the sequence of its parts
\* (pathlib's Path.parts; the first part of an absolute path is "/").
Upper == <<"A","B","C","D","E","F","G","H","I","J","K","L","M",
           "N","O","P","Q","R","S","T","U","V","W","X","Y","Z">>
Lower == <<"a","b","c","d","e","f","g","h","i","j","k","l","m",
           "n","o","p","q","r","s","t","u","v","w","x","y","z">>

\* str.lower() on one character, and on a name.
lowerChar(c) ==
    IF \E i \in 1..Len(Upper) : Upper[i] = c
    THEN Lower[CHOOSE i \in 1..Len(Upper) : Upper[i] = c]
    ELSE c
lower(name) == [i \in 1..Len(name) |-> lowerChar(name[i])]

\* str.startswith(".")
startswithDot(name) == Len(name) >= 1 /\ name[1] = "."

\* str.rfind("."), as a 1-based index, 0 when there is none.
rfindDot(name) ==
    IF \E i \in 1..Len(name) : name[i] = "."
    THEN CHOOSE i \in 1..Len(name) :
            /\ name[i] = "."
            /\ \A j \in (i+1)..Len(name) : name[j] # "."
    ELSE 0

\* PurePath.suffix: the last dot-suffix of the final part, "" when the dot
\* is the first or the last character of the name.
suffix(path) ==
    LET name == path[Len(path)]
        i == rfindDot(name)
    IN IF 1 < i /\ i < Len(name) THEN SubSeq(name, i, Len(name)) ELSE <<>>

\* PurePath.parents: the proper ancestors of a path.
parents(path) == {SubSeq(path, 1, k) : k \in 1..(Len(path) - 1)}

relevant_extensions ==
    {<<".","m","d">>, <<".","y","m","l">>, <<".","y","a","m","l">>,
     <<".","h","t","m","l">>, <<".","c","s","s">>, <<".","j","s">>}

ROOT == <<"/">>
PROJECT == <<"p">>
DIST == <<"d","i","s","t">>
project_root == <<ROOT, PROJECT>>
\* BuildEngine.output_dir = project_root / "dist"
output_dir == Append(project_root, DIST)

\* LiveReloadHandler._should_rebuild
DropOutputDirCheck_should_rebuild(file_path) ==
    IF \E i \in 1..Len(file_path) : startswithDot(file_path[i]) THEN FALSE
    ELSE lower(suffix(file_path)) \in relevant_extensions
_should_rebuild(file_path) ==
    IF \E i \in 1..Len(file_path) : startswithDot(file_path[i]) THEN FALSE
    ELSE IF output_dir \in parents(file_path) THEN FALSE
    ELSE lower(suffix(file_path)) \in relevant_extensions

\* on_modified, on_created, on_deleted: TRUE when the handler calls
\* _schedule_rebuild for the event.
on_modified(event) ==
    IF event.is_directory THEN FALSE
    ELSE _should_rebuild(event.src_path)
on_created(event) == on_modified(event)
on_deleted(event) ==
    IF event.is_directory THEN FALSE
    ELSE _should_rebuild(event.src_path)

\* FileSystemEventHandler.dispatch: only the three handlers above are
\* overridden; every other kind of event reaches a handler that does nothing.
EventKinds == {"created", "modified", "deleted", "moved", "closed"}
dispatch(event) ==
    CASE event.kind = "modified" -> on_modified(event)
      [] event.kind = "created" -> on_created(event)
      [] event.kind = "deleted" -> on_deleted(event)
      [] OTHER -> FALSE

FileNames == {
    <<"a", ".", "m", "d">>,
    <<"A", ".", "M", "D">>,
    <<"b", ".", "M", "d">>,
    <<"a", ".", "t", "x", "t">>,
    <<"c", ".", "y", "m", "l">>,
    <<"c", ".", "y", "a", "m", "l">>,
    <<"t", ".", "h", "t", "m", "l">>,
    <<"s", ".", "c", "s", "s">>,
    <<"j", ".", "j", "s">>,
    <<"a", ".", "m", "d", ".">>,
    <<"R", "E", "A", "D", "M", "E">>,
    <<".", "h", "i", "d", "d", "e", "n">>,
    <<".", "a", ".", "m", "d">>,
    <<"a", ".", "j", "s", "o", "n">>,
    <<"a", ".", "m", "d", "x">>,
    <<"x", ".", "t", "a", "r", ".", "j", "s">>}
DirNames == {
    <<"d", "o", "c", "s">>,
    <<"s", "t", "a", "t", "i", "c">>,
    <<"t", "e", "m", "p", "l", "a", "t", "e", "s">>,
    <<"d", "i", "s", "t">>,
    <<".", "g", "i", "t">>,
    <<"s", "u", "b">>}
SamplePaths ==
    {Append(project_root, f) : f \in FileNames}
    \cup {project_root \o <<d, f>> : d \in DirNames, f \in FileNames}
    \cup {project_root \o <<d, e, f>> : d \in DirNames, e \in {DIST, <<"s","u","b">>}, f \in FileNames}
Events == [kind : EventKinds, is_directory : BOOLEAN, src_path : SamplePaths]

NoEvent == [kind |-> "none", is_directory |-> FALSE, src_path |-> <<>>]

\* The events the watcher threads of the server model deliver.
DOCS == <<"d","o","c","s">>
WatchedEvents ==
    {[kind |-> "modified", is_directory |-> FALSE,
      src_path |-> project_root \o <<DOCS, <<"a",".","m","d">>>>],
     [kind |-> "created", is_directory |-> FALSE,
      src_path |-> project_root \o <<DIST, <<"t",".","h","t","m","l">>>>],
     [kind |-> "deleted", is_directory |-> FALSE,
      src_path |-> project_root \o <<DOCS, <<"c",".","y","m","l">>>>],
     [kind |-> "modified", is_directory |-> TRUE,
      src_path |-> project_root \o <<DOCS, <<"s","u","b">>>>]}

VARIABLES
    now,               \* the clock read by time.time() and Date.now(), in ticks
    mainPc,            \* the main thread's position in DevServer.start / stop
    _running,          \* DevServer._running
    observer,          \* DevServer.observer: "none", "running", "stopped"
    server,            \* DevServer.server: "none", "serving"
    port,              \* DevServer.port
    initBuild,         \* the initial build's result: "none", "ok", "failed"
    mainTmp,           \* the value of self._last_rebuild_time loaded at line 500
    wpc,               \* per watcher thread: position in on_* / _schedule_rebuild
    _lock,             \* LiveReloadHandler._lock: "free" or the holder
    rebuild_timer,     \* LiveReloadHandler.rebuild_timer: 0 (None) or a timer
    nTimers,           \* threading.Timer objects constructed so far
    on_rebuild,        \* LiveReloadHandler.on_rebuild: "none" or "set"
    timer,             \* per timer: "unused","created","pending","cancelled","fired"
    rebuild,           \* per timer thread: position in _rebuild
    outcome,           \* per timer thread: what builder.build did
    buildEnd,          \* per timer thread: the clock when builder.build returned
    r,                 \* per timer thread: the value on_rebuild holds
    handler_lrt,       \* LiveReloadHandler.last_rebuild_time
    _last_rebuild_time,\* DevServer._last_rebuild_time
    http_lrt,          \* DevServerHTTPHandler.last_rebuild_time
    hpc,               \* the HTTP handler's position in _handle_livereload_check
    should_reload,     \* _handle_livereload_check's should_reload
    client,            \* the browser: "none", "received", "idle", "waiting"
    lastCheck,         \* the polling script's lastCheck, in milliseconds
    intact,            \* history: every cancel so far found its timer pending
    afterRaise,        \* history: timers constructed after a rebuild raised
    lateStart,         \* history: a rebuild started after stop() returned
    everStarted,       \* history: which of "watcher", "listener" were started
    callbacks,         \* history: per timer thread, its calls of on_rebuild
    early,             \* history: rebuilds that set http_lrt before their build's end
    stale,             \* history: a rebuild completed since the page was served
    fsEvent,           \* the filesystem event handed to the handler
    scheduled          \* did the handler call _schedule_rebuild: "unknown", "yes", "no"

mainVars == <<mainPc, _running, observer, server, port, initBuild, mainTmp,
              everStarted>>
handlerVars == <<wpc, _lock, rebuild_timer, nTimers, on_rebuild, intact,
                 afterRaise>>
timerVars == <<timer, rebuild, outcome, buildEnd, r, lateStart, callbacks, early>>
stampVars == <<handler_lrt, _last_rebuild_time, http_lrt>>
httpVars == <<hpc, should_reload, client, lastCheck, stale>>

filterVars == <<fsEvent, scheduled>>

\* State of the operations modelled on their own: one livereload request.
VARIABLES
    request,           \* the request path handed to do_GET
    response,          \* the JSON reply of _handle_livereload_check
    sent               \* history: the timestamp the client put in the path

\* One call of _find_available_port.
VARIABLES
    port_preferred,    \* the argument preferred
    port_busy,         \* the ports that cannot be bound during the call
    port_result        \* what the call returned or raised

\* One call of generate_url_path / MarkdownProcessor._generate_url_path.
VARIABLES
    url_file,          \* the parts of the file's path below the docs root
    url_base,          \* the site's base path
    url_impl,          \* which of the two functions is called
    url_path           \* the URL path returned

\* A SearchIndexer.
VARIABLES
    documents,         \* SearchIndexer.documents
    added              \* history: url and title of each page added since clear

\* A project and the BuildEngine that builds it.
VARIABLES
    project,           \* "none" until the project is laid out, then "ready"
    docs_exists,       \* does the docs directory exist
    docs_kinds,        \* what each Markdown file of the docs directory holds
    dist,              \* the output directory: exists, and its files
    index_json,        \* the list in dist/search-index.json
    _processed_pages,  \* BuildEngine._processed_pages
    result,            \* the BuildResult of the last build
    nbuilds,           \* builds run so far
    last,              \* history: arguments and prior state of the last build
    builds             \* history: per build, clean and the index it left

\* A call of apply_base_path.
VARIABLES
    abp_url,     \* the link given to apply_base_path
    abp_base,    \* the base path given to apply_base_path
    abp_result   \* what apply_base_path returned

\* A call of MarkdownProcessor.extract_toc.
VARIABLES
    toc_body,  \* the lines of the Markdown body given to extract_toc
    toc_result        \* what extract_toc returned

\* One clean build of a project whose files can all be processed.
VARIABLES
    nav_files,    \* the Markdown files of a project, in sorted order
    nav_pages,    \* BuildEngine._processed_pages after the build of them
    nav_written,  \* the page files the build wrote into the empty output
    nav_context,  \* per page, prev_page and next_page of its template context
    nav_built     \* has the project been built

\* A call of MarkdownProcessor._transform_md_link.
VARIABLES
    href,         \* the href given to _transform_md_link
    href_result   \* what _transform_md_link returned

\* Sources, debounce timers, rebuilds and the output they write.
VARIABLES
    src_version,   \* qualifying changes of the sources so far
    debounce,      \* per change: the threading.Timer _schedule_rebuild made for it
    building,      \* per timer thread: its position in builder.build
    read_version,  \* per timer thread: the sources its build read
    out_version    \* the sources the pages in the output directory were made from

checkVars == <<request, response, sent>>
portVars == <<port_preferred, port_busy, port_result>>
urlVars == <<url_file, url_base, url_impl, url_path>>
indexerVars == <<documents, added>>
buildVars == <<project, docs_exists, docs_kinds, dist, index_json,
               _processed_pages, result, nbuilds, last, builds>>
baseVars == <<abp_url, abp_base, abp_result>>
tocVars == <<toc_body, toc_result>>
navVars == <<nav_files, nav_pages, nav_written, nav_context, nav_built>>
linkVars == <<href, href_result>>
freshVars == <<src_version, debounce, building, read_version, out_version>>
toolVars == <<checkVars, portVars, urlVars, indexerVars, buildVars, baseVars,
              tocVars, navVars, linkVars, freshVars>>

\* The development server's state, and what each operation modelled on its
\* own leaves alone.
serverVars == <<now, mainVars, handlerVars, timerVars, stampVars, httpVars,
                filterVars>>
exceptCheck == <<serverVars, portVars, urlVars, indexerVars, buildVars,
                 baseVars, tocVars, navVars, linkVars, freshVars>>
exceptPort == <<serverVars, checkVars, urlVars, indexerVars, buildVars,
                baseVars, tocVars, navVars, linkVars, freshVars>>
exceptUrl == <<serverVars, checkVars, portVars, indexerVars, buildVars,
               baseVars, tocVars, navVars, linkVars, freshVars>>
exceptIndexer == <<serverVars, checkVars, portVars, urlVars, buildVars,
                   baseVars, tocVars, navVars, linkVars, freshVars>>
exceptBuild == <<serverVars, checkVars, portVars, urlVars, added, baseVars,
                 tocVars, navVars, linkVars, freshVars>>
exceptBase == <<serverVars, checkVars, portVars, urlVars, indexerVars,
                buildVars, tocVars, navVars, linkVars, freshVars>>
exceptToc == <<serverVars, checkVars, portVars, urlVars, indexerVars,
               buildVars, baseVars, navVars, linkVars, freshVars>>
exceptNav == <<serverVars, checkVars, portVars, urlVars, indexerVars,
               buildVars, baseVars, tocVars, linkVars, freshVars>>
exceptLink == <<serverVars, checkVars, portVars, urlVars, indexerVars,
                buildVars, baseVars, tocVars, navVars, freshVars>>
exceptFresh == <<serverVars, checkVars, portVars, urlVars, indexerVars,
                 buildVars, baseVars, tocVars, navVars, linkVars>>

vars == <<now, mainVars, handlerVars, timerVars, stampVars, httpVars,
          filterVars, toolVars>>

\* No request is being handled.
NoPath == <<>>
NoResponse == [reload |-> FALSE, timestamp |-> -1]
NoClientTime == [kind |-> "none", ms |-> 0]
NotCalled == [raised |-> "not called", port |-> 0]
NoResult == [success |-> FALSE, pages_built |-> 0 - 1,
             errors |-> <<>>, warnings |-> <<>>]
NoBuild == [clean |-> FALSE, failing |-> {}, names_before |-> {},
            documents_before |-> 0]
NotApplied == [called |-> FALSE, url |-> <<>>]
NoToc == [called |-> FALSE, items |-> <<>>]
ToolsIdle ==
    /\ request = NoPath
    /\ response = NoResponse
    /\ sent = NoClientTime
    /\ port_preferred = 0
    /\ port_busy = {}
    /\ port_result = NotCalled
    /\ url_file = <<>>
    /\ url_base = <<"/">>
    /\ url_impl = "none"
    /\ url_path = <<>>
    /\ documents = <<>>
    /\ added = <<>>
    /\ project = "none"
    /\ docs_exists = FALSE
    /\ docs_kinds = <<>>
    /\ dist = [exists |-> FALSE, files |-> {}]
    /\ index_json = <<>>
    /\ _processed_pages = <<>>
    /\ result = NoResult
    /\ nbuilds = 0
    /\ last = NoBuild
    /\ builds = <<>>
    /\ abp_url = <<>>
    /\ abp_base = <<>>
    /\ abp_result = NotApplied
    /\ toc_body = <<>>
    /\ toc_result = NoToc
    /\ nav_files = <<>>
    /\ nav_pages = <<>>
    /\ nav_written = {}
    /\ nav_context = <<>>
    /\ nav_built = FALSE
    /\ href = <<>>
    /\ href_result = NotApplied
    /\ src_version = 0
    /\ debounce = [k \in Edits |-> "unused"]
    /\ building = [k \in Edits |-> "idle"]
    /\ read_version = [k \in Edits |-> 0]
    /\ out_version = 0

\* ------------------------------------------------------------------- Init
\* DevServer.__init__ (line 333 reads the clock) and the class attributes of
\* DevServerHTTPHandler; no handler, timer or browser exists yet.
Init ==
    /\ now = 1
    /\ mainPc = "created"
    /\ _running = FALSE
    /\ observer = "none"
    /\ server = "none"
    /\ port = DEFAULT_PORT
    /\ initBuild = "none"
    /\ mainTmp = 0
    /\ everStarted = {}
    /\ wpc = [w \in Watchers |-> "idle"]
    /\ _lock = "free"
    /\ rebuild_timer = 0
    /\ nTimers = 0
    /\ on_rebuild = "none"
    /\ intact = TRUE
    /\ afterRaise = {}
    /\ timer = [i \in Timers |-> "unused"]
    /\ rebuild = [i \in Timers |-> "idle"]
    /\ outcome = [i \in Timers |-> "none"]
    /\ buildEnd = [i \in Timers |-> 0]
    /\ r = [i \in Timers |-> 0]
    /\ lateStart = FALSE
    /\ callbacks = [i \in Timers |-> 0]
    /\ early = {}
    /\ handler_lrt = 0
    /\ _last_rebuild_time = 1
    /\ http_lrt = 0
    /\ hpc = "idle"
    /\ should_reload = FALSE
    /\ client = "none"
    /\ lastCheck = 0
    /\ stale = FALSE
    /\ fsEvent = NoEvent
    /\ scheduled = "unknown"
    /\ ToolsIdle

\* Time passes.
Tick ==
    /\ now < MaxClock
    /\ now' = now + 1
    /\ UNCHANGED <<mainVars, handlerVars, timerVars, stampVars, httpVars, filterVars,
                   toolVars>>

\* ------------------------------------------------------------ main thread
\* socket.bind((host, port)) against the ports that are taken: a port number
\* outside 0..65535 raises OverflowError, a taken port OSError.
MaxPortNumber == 65535
bind(p, busy) ==
    IF p < 0 \/ p > MaxPortNumber THEN "OverflowError"
    ELSE IF p \in busy THEN "OSError"
    ELSE "ok"

\* DevServer._is_port_available: True, False (OSError is caught), or the
\* exception it does not catch.
_is_port_available(p, busy) ==
    CASE bind(p, busy) = "ok" -> "True"
      [] bind(p, busy) = "OSError" -> "False"
      [] OTHER -> bind(p, busy)

\* DevServer._find_available_port, given the ports that cannot be bound: the
\* port returned, or the exception that leaves the method.
RECURSIVE probe(_, _, _)
probe(preferred, attempt, busy) ==
    IF attempt >= MAX_PORT_ATTEMPTS
    THEN [raised |-> "RuntimeError", port |-> 0]
    ELSE LET available == _is_port_available(preferred + attempt, busy)
         IN IF available = "True"
            THEN [raised |-> "none", port |-> preferred + attempt]
            ELSE IF available = "False"
            THEN probe(preferred, attempt + 1, busy)
            ELSE [raised |-> available, port |-> 0]
_find_available_port(preferred, busy) == probe(preferred, 0, busy)

Probed == DEFAULT_PORT..(DEFAULT_PORT + MAX_PORT_ATTEMPTS - 1)

\* DevServer.start, lines 342-354: the initial build; a failed one raises.
IgnoreFailedInitialBuild ==
    /\ mainPc = "created"
    /\ _running' = TRUE
    /\ \E res \in {"ok", "failed"} :
          /\ initBuild' = res
          /\ mainPc' = "find_port"
    /\ UNCHANGED <<now, observer, server, port, mainTmp, everStarted,
                   handlerVars, timerVars, stampVars, httpVars, filterVars,
                   toolVars>>
StartInitialBuild ==
    /\ mainPc = "created"
    /\ _running' = TRUE
    /\ \E res \in {"ok", "failed"} :
          /\ initBuild' = res
          /\ mainPc' = IF res = "ok" THEN "find_port" ELSE "raised"
    /\ UNCHANGED <<now, observer, server, port, mainTmp, everStarted,
                   handlerVars, timerVars, stampVars, httpVars, filterVars,
                   toolVars>>

\* DevServer.start, line 357.
FindPort ==
    /\ mainPc = "find_port"
    /\ \E busy \in {{}, Probed} :
          LET found == _find_available_port(port, busy)
          IN IF found.raised # "none"
             THEN mainPc' = "raised" /\ port' = port
             ELSE mainPc' = "start_watcher" /\ port' = found.port
    /\ UNCHANGED <<now, _running, observer, server, initBuild, mainTmp,
                   everStarted, handlerVars, timerVars, stampVars, httpVars, filterVars,
                   toolVars>>

\* DevServer._start_file_watcher: the handler is created with the on_rebuild
\* callback and the observer thread started.
StartFileWatcher ==
    /\ mainPc = "start_watcher"
    /\ on_rebuild' = "set"
    /\ observer' = "running"
    /\ everStarted' = everStarted \cup {"watcher"}
    /\ mainPc' = "http_check"
    /\ UNCHANGED <<now, _running, server, port, initBuild, mainTmp, wpc, _lock,
                   rebuild_timer, nTimers, intact, timerVars, stampVars,
                   httpVars, filterVars, afterRaise,
                   toolVars>>

\* DevServer._start_http_server, lines 494-496: a missing output directory
\* raises.
HttpCheckOutputDir ==
    /\ mainPc = "http_check"
    /\ \E exists \in BOOLEAN :
          mainPc' = IF exists THEN "http_load" ELSE "raised"
    /\ UNCHANGED <<now, _running, observer, server, port, initBuild, mainTmp,
                   everStarted, handlerVars, timerVars, stampVars, httpVars, filterVars,
                   toolVars>>

\* Line 500, the load of self._last_rebuild_time ...
HttpLoadStamp ==
    /\ mainPc = "http_load"
    /\ mainTmp' = _last_rebuild_time
    /\ mainPc' = "http_store"
    /\ UNCHANGED <<now, _running, observer, server, port, initBuild,
                   everStarted, handlerVars, timerVars, stampVars, httpVars, filterVars,
                   toolVars>>

\* ... and the store to DevServerHTTPHandler.last_rebuild_time.
HttpStoreStamp ==
    /\ mainPc = "http_store"
    /\ http_lrt' = mainTmp
    /\ mainPc' = "bind"
    /\ UNCHANGED <<now, _running, observer, server, port, initBuild, mainTmp,
                   everStarted, handlerVars, timerVars, handler_lrt,
                   _last_rebuild_time, httpVars, filterVars,
                   toolVars>>

\* Lines 506-514: TCPServer binds the port (OSError when it was taken since
\* the probe) and serve_forever runs.
HttpBind ==
    /\ mainPc = "bind"
    /\ \E bound \in BOOLEAN :
          IF bound
          THEN /\ server' = "serving"
               /\ everStarted' = everStarted \cup {"listener"}
               /\ mainPc' = "serving"
          ELSE /\ server' = server
               /\ everStarted' = everStarted
               /\ mainPc' = "raised"
    /\ UNCHANGED <<now, _running, observer, port, initBuild, mainTmp,
                   handlerVars, timerVars, stampVars, httpVars, filterVars,
                   toolVars>>

\* KeyboardInterrupt in serve_forever: stop() is called; line 375.
StopRunning ==
    /\ mainPc = "serving"
    /\ _running' = FALSE
    /\ mainPc' = "stop_observer"
    /\ UNCHANGED <<now, observer, server, port, initBuild, mainTmp,
                   everStarted, handlerVars, timerVars, stampVars, httpVars, filterVars,
                   toolVars>>

\* Lines 377-378: observer.stop().
LeaveObserverRunning ==
    /\ mainPc = "stop_observer"
    /\ mainPc' = "shutdown"
    /\ UNCHANGED <<now, _running, observer, server, port, initBuild, mainTmp,
                   everStarted, handlerVars, timerVars, stampVars, httpVars, filterVars,
                   toolVars>>
StopObserver ==
    /\ mainPc = "stop_observer"
    /\ observer' = IF observer = "none" THEN "none" ELSE "stopped"
    /\ mainPc' = IF observer = "none" THEN "shutdown" ELSE "join"
    /\ UNCHANGED <<now, _running, server, port, initBuild, mainTmp,
                   everStarted, handlerVars, timerVars, stampVars, httpVars, filterVars,
                   toolVars>>

\* Lines 379-380: observer.join(timeout=2) returns when the observer thread
\* has ended or when the timeout has passed.
JoinObserver ==
    /\ mainPc = "join"
    /\ \E timedOut \in BOOLEAN :
          timedOut \/ \A w \in Watchers : wpc[w] = "idle"
    /\ observer' = "none"
    /\ mainPc' = "shutdown"
    /\ UNCHANGED <<now, _running, server, port, initBuild, mainTmp,
                   everStarted, handlerVars, timerVars, stampVars, httpVars, filterVars,
                   toolVars>>

\* Lines 382-386: server.shutdown(); stop() returns.
ShutdownServer ==
    /\ mainPc = "shutdown"
    /\ server' = "none"
    /\ mainPc' = "stopped"
    /\ UNCHANGED <<now, _running, observer, port, initBuild, mainTmp,
                   everStarted, handlerVars, timerVars, stampVars, httpVars, filterVars,
                   toolVars>>

\* --------------------------------------------------------- watcher threads
InSchedule(w) == wpc[w] \in {"acquire", "cancel", "assign", "start"}

\* The observer delivers an event to on_modified / on_created / on_deleted;
\* a qualifying one goes on to _schedule_rebuild.
Deliver(w) ==
    /\ observer = "running"
    /\ wpc[w] = "idle"
    /\ nTimers + Cardinality({v \in Watchers : InSchedule(v)}) < MaxEvents
    /\ \E event \in WatchedEvents :
          wpc' = IF dispatch(event) THEN [wpc EXCEPT ![w] = "acquire"] ELSE wpc
    /\ UNCHANGED <<now, mainVars, _lock, rebuild_timer, nTimers, on_rebuild,
                   intact, timerVars, stampVars, httpVars, filterVars, afterRaise,
                   toolVars>>

\* Line 132: with self._lock
EnterWithoutLock(w) ==
    /\ wpc[w] = "acquire"
    /\ wpc' = [wpc EXCEPT ![w] = "cancel"]
    /\ UNCHANGED <<now, mainVars, _lock, rebuild_timer, nTimers, on_rebuild,
                   intact, timerVars, stampVars, httpVars, filterVars, afterRaise,
                   toolVars>>
Acquire(w) ==
    /\ wpc[w] = "acquire"
    /\ _lock = "free"
    /\ _lock' = w
    /\ wpc' = [wpc EXCEPT ![w] = "cancel"]
    /\ UNCHANGED <<now, mainVars, rebuild_timer, nTimers, on_rebuild, intact,
                   timerVars, stampVars, httpVars, filterVars, afterRaise,
                   toolVars>>

\* threading.Timer.cancel(): a timer that has not fired will not fire.
cancelled(t) == IF t \in {"created", "pending"} THEN "cancelled" ELSE t

\* Lines 134-135: cancel the stored timer.
SkipCancel(w) ==
    /\ wpc[w] = "cancel"
    /\ intact' = (intact /\ (rebuild_timer = 0 \/ timer[rebuild_timer] = "pending"))
    /\ wpc' = [wpc EXCEPT ![w] = "assign"]
    /\ UNCHANGED <<now, mainVars, _lock, rebuild_timer, nTimers, on_rebuild,
                   timerVars, stampVars, httpVars, filterVars, afterRaise,
                   toolVars>>
CancelTimer(w) ==
    /\ wpc[w] = "cancel"
    /\ timer' = IF rebuild_timer = 0 THEN timer
                ELSE [timer EXCEPT ![rebuild_timer] = cancelled(@)]
    /\ intact' = (intact /\ (rebuild_timer = 0 \/ timer[rebuild_timer] = "pending"))
    /\ wpc' = [wpc EXCEPT ![w] = "assign"]
    /\ UNCHANGED <<now, mainVars, _lock, rebuild_timer, nTimers, on_rebuild,
                   rebuild, outcome, buildEnd, r, lateStart, callbacks, early,
                   stampVars, httpVars, filterVars, afterRaise,
                   toolVars>>

\* Line 138: a new Timer is constructed and stored.
AssignTimer(w) ==
    /\ wpc[w] = "assign"
    /\ nTimers' = nTimers + 1
    /\ timer' = [timer EXCEPT ![nTimers + 1] = "created"]
    /\ rebuild_timer' = nTimers + 1
    /\ afterRaise' = IF \E i \in Timers : outcome[i] = "raised"
                     THEN afterRaise \cup {nTimers + 1} ELSE afterRaise
    /\ wpc' = [wpc EXCEPT ![w] = "start"]
    /\ UNCHANGED <<now, mainVars, _lock, on_rebuild, intact, rebuild, outcome,
                   buildEnd, r, lateStart, callbacks, early, stampVars,
                   httpVars, filterVars,
                   toolVars>>

\* threading.Timer.start(): the timer thread waits for the delay unless the
\* timer was cancelled.
started(t) == IF t = "created" THEN "pending" ELSE t

\* Line 139 and the end of the with block: the stored timer is started and
\* the lock released.
StartTimer(w) ==
    /\ wpc[w] = "start"
    /\ timer' = [timer EXCEPT ![rebuild_timer] = started(@)]
    /\ _lock' = IF _lock = w THEN "free" ELSE _lock
    /\ wpc' = [wpc EXCEPT ![w] = "idle"]
    /\ UNCHANGED <<now, mainVars, rebuild_timer, nTimers, on_rebuild, intact,
                   rebuild, outcome, buildEnd, r, lateStart, callbacks, early,
                   stampVars, httpVars, filterVars, afterRaise,
                   toolVars>>

\* ----------------------------------------------------------- timer threads
\* The debounce delay has passed and the timer was not cancelled: the timer
\* thread calls _rebuild, which calls builder.build(clean=False), line 146.
TimerFire(i) ==
    /\ timer[i] = "pending"
    /\ timer' = [timer EXCEPT ![i] = "fired"]
    /\ rebuild' = [rebuild EXCEPT ![i] = "building"]
    /\ lateStart' = (lateStart \/ mainPc = "stopped")
    /\ UNCHANGED <<now, mainVars, handlerVars, outcome, buildEnd, r,
                   callbacks, early, stampVars, httpVars, filterVars,
                   toolVars>>

\* builder.build returns a BuildResult (lines 147-155) or raises (lines
\* 164-165: the exception is logged and _rebuild returns).
StampAfterRaise(i) ==
    /\ rebuild[i] = "building"
    /\ \E res \in {"ok", "failed", "raised"} :
          /\ outcome' = [outcome EXCEPT ![i] = res]
          /\ rebuild' = [rebuild EXCEPT ![i] = "stamp"]
          /\ buildEnd' = [buildEnd EXCEPT ![i] = now]
    /\ UNCHANGED <<now, mainVars, handlerVars, timer, r, lateStart, callbacks,
                   early, stampVars, httpVars, filterVars,
                   toolVars>>
BuildReturn(i) ==
    /\ rebuild[i] = "building"
    /\ \E res \in {"ok", "failed", "raised"} :
          /\ outcome' = [outcome EXCEPT ![i] = res]
          /\ IF res = "raised"
             THEN /\ rebuild' = [rebuild EXCEPT ![i] = "done"]
                  /\ buildEnd' = buildEnd
             ELSE /\ rebuild' = [rebuild EXCEPT ![i] = "stamp"]
                  /\ buildEnd' = [buildEnd EXCEPT ![i] = now]
    /\ UNCHANGED <<now, mainVars, handlerVars, timer, r, lateStart, callbacks,
                   early, stampVars, httpVars, filterVars,
                   toolVars>>

\* Lines 158-162: self.last_rebuild_time = time.time(), then on_rebuild is
\* called if there is one.
StampHandler(i) ==
    /\ rebuild[i] = "stamp"
    /\ handler_lrt' = now
    /\ IF on_rebuild = "set"
       THEN /\ rebuild' = [rebuild EXCEPT ![i] = "cb_time"]
            /\ callbacks' = [callbacks EXCEPT ![i] = @ + 1]
            /\ buildEnd' = buildEnd
       ELSE /\ rebuild' = [rebuild EXCEPT ![i] = "done"]
            /\ callbacks' = callbacks
            /\ buildEnd' = [buildEnd EXCEPT ![i] = 0]
    /\ UNCHANGED <<now, mainVars, handlerVars, timer, outcome, r, lateStart,
                   early, _last_rebuild_time, http_lrt, httpVars, filterVars,
                   toolVars>>

\* on_rebuild, line 449: time.time() is read ...
CallbackTime(i) ==
    /\ rebuild[i] = "cb_time"
    /\ r' = [r EXCEPT ![i] = now]
    /\ rebuild' = [rebuild EXCEPT ![i] = "cb_store"]
    /\ UNCHANGED <<now, mainVars, handlerVars, timer, outcome, buildEnd,
                   lateStart, callbacks, early, stampVars, httpVars, filterVars,
                   toolVars>>

\* ... and stored in self._last_rebuild_time.
CallbackStore(i) ==
    /\ rebuild[i] = "cb_store"
    /\ _last_rebuild_time' = r[i]
    /\ rebuild' = [rebuild EXCEPT ![i] = "cb_load"]
    /\ UNCHANGED <<now, mainVars, handlerVars, timer, outcome, buildEnd, r,
                   lateStart, callbacks, early, handler_lrt, http_lrt,
                   httpVars, filterVars,
                   toolVars>>

\* Line 451: self._last_rebuild_time is loaded ...
CallbackLoad(i) ==
    /\ rebuild[i] = "cb_load"
    /\ r' = [r EXCEPT ![i] = _last_rebuild_time]
    /\ rebuild' = [rebuild EXCEPT ![i] = "cb_set"]
    /\ UNCHANGED <<now, mainVars, handlerVars, timer, outcome, buildEnd,
                   lateStart, callbacks, early, stampVars, httpVars, filterVars,
                   toolVars>>

\* ... and stored in DevServerHTTPHandler.last_rebuild_time; on_rebuild and
\* _rebuild return, and the thread's locals are gone.
CallbackSet(i) ==
    /\ rebuild[i] = "cb_set"
    /\ http_lrt' = r[i]
    /\ rebuild' = [rebuild EXCEPT ![i] = "done"]
    /\ early' = IF r[i] < buildEnd[i] THEN early \cup {i} ELSE early
    /\ r' = [r EXCEPT ![i] = 0]
    /\ buildEnd' = [buildEnd EXCEPT ![i] = 0]
    /\ stale' = (stale \/ client \in {"received", "idle", "waiting"})
    /\ UNCHANGED <<now, mainVars, handlerVars, timer, outcome, lateStart,
                   callbacks, handler_lrt, _last_rebuild_time, hpc,
                   should_reload, client, lastCheck, filterVars,
                   toolVars>>

\* ------------------------------------------------- HTTP handler and browser
\* time.time() and Date.now() in whole milliseconds.
Millis(t) == t \div TicksPerMs

\* The browser requests a page; send_head reads the file from the output
\* directory and sends it with the livereload script.
ServePage ==
    /\ mainPc = "serving"
    /\ hpc = "idle"
    /\ client = "none"
    /\ client' = "received"
    /\ stale' = FALSE
    /\ UNCHANGED <<now, mainVars, handlerVars, timerVars, stampVars, hpc,
                   should_reload, lastCheck, filterVars,
                   toolVars>>

\* LIVERELOAD_SCRIPT, line 34: var lastCheck = Date.now()
ScriptStart ==
    /\ client = "received"
    /\ lastCheck' = Millis(now)
    /\ client' = "idle"
    /\ UNCHANGED <<now, mainVars, handlerVars, timerVars, stampVars, hpc,
                   should_reload, stale, filterVars,
                   toolVars>>

\* The script polls with t = lastCheck; _handle_livereload_check, lines
\* 189-200, compares the shared timestamp with t / 1000.
livereload_check(last_rebuild_time, client_time) ==
    last_rebuild_time > client_time * TicksPerMs

PollCheck ==
    /\ mainPc = "serving"
    /\ hpc = "idle"
    /\ client = "idle"
    /\ should_reload' = livereload_check(http_lrt, lastCheck)
    /\ hpc' = "reply"
    /\ client' = "waiting"
    /\ UNCHANGED <<now, mainVars, handlerVars, timerVars, stampVars, lastCheck,
                   stale, filterVars,
                   toolVars>>

\* Lines 202-210: the reply carries int(time.time() * 1000); the script
\* (lines 45-52) reloads the page when told to and keeps the timestamp.
\* A reload discards the script's state.
PollReply ==
    /\ mainPc = "serving"
    /\ hpc = "reply"
    /\ hpc' = "idle"
    /\ should_reload' = FALSE
    /\ IF should_reload
       THEN client' = "none" /\ lastCheck' = 0 /\ stale' = FALSE
       ELSE client' = "idle" /\ lastCheck' = Millis(now) /\ stale' = stale
    /\ UNCHANGED <<now, mainVars, handlerVars, timerVars, stampVars, filterVars,
                   toolVars>>

\* ------------------------------------------------- the livereload request
\* A request path is a sequence of characters; the fixed prefix
\* "/__livereload__/check" that do_GET matches is written as one element.
CHECK == "/__livereload__/check"
Digits == <<"0","1","2","3","4","5","6","7","8","9">>

\* The client side, LIVERELOAD_SCRIPT line 41:
\* fetch('/__livereload__/check?t=' + lastCheck) writes the number in decimal.
RECURSIVE digitsOf(_)
digitsOf(n) ==
    IF n < 10 THEN <<Digits[n + 1]>>
    ELSE Append(digitsOf(n \div 10), Digits[(n % 10) + 1])
String(n) == IF n < 0 THEN <<"-">> \o digitsOf(0 - n) ELSE digitsOf(n)

\* str.split(sep) for a one-character separator.
RECURSIVE split(_, _)
split(str, sep) ==
    IF \E i \in 1..Len(str) : str[i] = sep
    THEN LET i == CHOOSE k \in 1..Len(str) :
                     /\ str[k] = sep
                     /\ \A j \in 1..(k - 1) : str[j] # sep
         IN <<SubSeq(str, 1, i - 1)>> \o split(SubSeq(str, i + 1, Len(str)), sep)
    ELSE <<str>>

\* str.startswith(prefix)
startswith(str, prefix) ==
    /\ Len(str) >= Len(prefix)
    /\ SubSeq(str, 1, Len(prefix)) = prefix

\* float(str) on an optional sign followed by decimal digits; any other text
\* of the sample raises ValueError (ok = FALSE).
isDigit(c) == \E i \in 1..Len(Digits) : Digits[i] = c
digitValue(c) == (CHOOSE i \in 1..Len(Digits) : Digits[i] = c) - 1
RECURSIVE toInt(_)
toInt(str) ==
    IF str = <<>> THEN 0
    ELSE toInt(SubSeq(str, 1, Len(str) - 1)) * 10 + digitValue(str[Len(str)])
float(str) ==
    LET neg == Len(str) >= 1 /\ str[1] = "-"
        body == IF neg THEN Tail(str) ELSE str
    IN IF body # <<>> /\ \A i \in 1..Len(body) : isDigit(body[i])
       THEN [ok |-> TRUE, value |-> IF neg THEN 0 - toInt(body) ELSE toInt(body)]
       ELSE [ok |-> FALSE, value |-> 0]

\* _handle_livereload_check, lines 189-197: the loop over the parameters of
\* the query string; a parameter t= that does not parse leaves client_time.
RECURSIVE parse_params(_, _)
parse_params(params, client_time) ==
    IF params = <<>> THEN client_time
    ELSE LET param == Head(params)
             parsed == float(SubSeq(param, 3, Len(param)))
         IN parse_params(Tail(params),
                         IF startswith(param, <<"t", "=">>) /\ parsed.ok
                         THEN parsed.value
                         ELSE client_time)
parse_client_time(path) ==
    IF \E i \in 1..Len(path) : path[i] = "?"
    THEN parse_params(split(split(path, "?")[2], "&"), 0)
    ELSE 0

\* _handle_livereload_check: the reply for a path, given the class attribute
\* last_rebuild_time and the clock.
StrictnessDropped_livereload_reply(path, last_rebuild_time, time) ==
    [reload |-> last_rebuild_time >= parse_client_time(path) * TicksPerMs,
     timestamp |-> Millis(time)]
_handle_livereload_check(path, last_rebuild_time, time) ==
    [reload |-> livereload_check(last_rebuild_time, parse_client_time(path)),
     timestamp |-> Millis(time)]

\* The requests of the sample: what the client means, and the path it sends.
MaxClientTime == 11
OtherParam == <<"x", "=", "1">>
ClientTimes ==
    {[kind |-> "ms", ms |-> t] : t \in (0 - 1)..MaxClientTime}
    \cup {[kind |-> "missing", ms |-> 0], [kind |-> "unparsable", ms |-> 0]}
tParam(ct) ==
    IF ct.kind = "ms" THEN {<<"t", "=">> \o String(ct.ms)}
    ELSE IF ct.kind = "unparsable"
    THEN {<<"t", "=">>, <<"t", "=", "a", "b", "c">>, <<"t", "=", "1", "x">>,
          <<"t", "=", "%", "3", "1">>}
    ELSE {}
PathsFor(ct) ==
    IF ct.kind = "missing"
    THEN {<<CHECK>>, <<CHECK, "?">>, <<CHECK, "?">> \o OtherParam,
          <<CHECK, "?", "t">>, <<CHECK, "?", "x", "t", "=", "5">>}
    ELSE UNION {{<<CHECK, "?">> \o q,
                 <<CHECK, "?">> \o OtherParam \o <<"&">> \o q,
                 <<CHECK, "?">> \o q \o <<"&">> \o OtherParam} : q \in tParam(ct)}

\* The browser sends a check request.
SendCheck ==
    /\ mainPc = "serving"
    /\ request = NoPath
    /\ \E ct \in ClientTimes : \E path \in PathsFor(ct) :
          /\ sent' = ct
          /\ request' = path
    /\ UNCHANGED <<exceptCheck, response>>

\* do_GET hands the request to _handle_livereload_check, which replies.
HandleCheck ==
    /\ request # NoPath
    /\ response = NoResponse
    /\ response' = _handle_livereload_check(request, http_lrt, now)
    /\ UNCHANGED <<exceptCheck, request, sent>>

\* The browser has the reply.
ReceiveReply ==
    /\ response # NoResponse
    /\ request' = NoPath
    /\ response' = NoResponse
    /\ sent' = NoClientTime
    /\ UNCHANGED exceptCheck

\* ------------------------------------------------------ the port search
\* The preferred ports of the sample: the default, and one close enough to
\* the largest port number for the probes to pass it.
PreferredPorts == {DEFAULT_PORT, MaxPortNumber - 5}
PortRange(preferred) == preferred..(preferred + MAX_PORT_ATTEMPTS - 1)

\* A caller is about to search from a preferred port while some of the
\* probed ports are taken.
ChoosePorts ==
    /\ port_preferred = 0 \/ port_result # NotCalled
    /\ \E preferred \in PreferredPorts :
          /\ port_preferred' = preferred
          /\ port_busy' \in SUBSET (PortRange(preferred) \cap 1..MaxPortNumber)
    /\ port_result' = NotCalled
    /\ UNCHANGED exceptPort

\* self._find_available_port(preferred)
FindAvailablePort ==
    /\ port_preferred # 0
    /\ port_result = NotCalled
    /\ port_result' = _find_available_port(port_preferred, port_busy)
    /\ UNCHANGED <<exceptPort, port_preferred, port_busy>>

\* ------------------------------------------------------------ URL paths
\* Strings are sequences of characters.
\* str.endswith(ending)
endswith(str, ending) ==
    /\ Len(str) >= Len(ending)
    /\ SubSeq(str, Len(str) - Len(ending) + 1, Len(str)) = ending

\* sub in str
contains(str, sub) ==
    \E i \in 1..(Len(str) - Len(sub) + 1) : SubSeq(str, i, i + Len(sub) - 1) = sub

\* str.rfind(sub), 1-based, 0 when sub does not occur.
rfind(str, sub) ==
    IF contains(str, sub)
    THEN CHOOSE i \in 1..(Len(str) - Len(sub) + 1) :
            /\ SubSeq(str, i, i + Len(sub) - 1) = sub
            /\ \A j \in (i + 1)..(Len(str) - Len(sub) + 1) :
                  SubSeq(str, j, j + Len(sub) - 1) # sub
    ELSE 0

\* str.rsplit(sep, 1)[0]: what precedes the last occurrence of sep.
rsplit1_head(str, sep) ==
    IF rfind(str, sep) = 0 THEN str ELSE SubSeq(str, 1, rfind(str, sep) - 1)

\* str.rstrip(ch) for one character.
RECURSIVE rstrip(_, _)
rstrip(str, ch) ==
    IF str # <<>> /\ str[Len(str)] = ch
    THEN rstrip(SubSeq(str, 1, Len(str) - 1), ch)
    ELSE str

\* str.replace(old, new) for single characters.
replace(str, old, new) ==
    [i \in 1..Len(str) |-> IF str[i] = old THEN new ELSE str[i]]

\* str(rel_path): the parts of a relative path joined with "/".
RECURSIVE join(_)
join(parts) ==
    IF parts = <<>> THEN <<>>
    ELSE IF Len(parts) = 1 THEN parts[1]
    ELSE parts[1] \o <<"/">> \o join(Tail(parts))

INDEX == <<"i", "n", "d", "e", "x">>
DOT_MD == <<".", "m", "d">>
DOT_HTML == <<".", "h", "t", "m", "l">>

\* The steps the two functions share, builder.py 493-510 and
\* processor.py 320-334: from the relative path to the slash-delimited path.
clean_url(rel_path) ==
    LET s0 == replace(join(rel_path), "\\", "/")
        s1 == IF endswith(s0, DOT_MD) THEN SubSeq(s0, 1, Len(s0) - 3) ELSE s0
        s2 == IF endswith(s1, <<"/">> \o INDEX) \/ s1 = INDEX
              THEN rsplit1_head(s1, INDEX)
              ELSE s1
        s3 == IF startswith(s2, <<"/">>) THEN s2 ELSE <<"/">> \o s2
    IN IF endswith(s3, <<"/">>) THEN s3 ELSE s3 \o <<"/">>

\* builder.generate_url_path(file_path, docs_dir, base_path)
generate_url_path(rel_path, base_path) ==
    LET base == rstrip(base_path, "/")
    IN IF base # <<>> /\ base # <<"/">>
       THEN base \o clean_url(rel_path)
       ELSE clean_url(rel_path)

\* MarkdownProcessor.__init__ normalises base_path; _generate_url_path.
processor_base_path(base_path) ==
    IF base_path # <<"/">> THEN rstrip(base_path, "/") \o <<"/">> ELSE <<"/">>
_generate_url_path(rel_path, base_path) ==
    IF processor_base_path(base_path) # <<"/">>
    THEN rstrip(processor_base_path(base_path), "/") \o clean_url(rel_path)
    ELSE clean_url(rel_path)

\* The Markdown files of the sample: up to two directories and a file name
\* matching *.md.
UrlDirNames == {<<"g", "u", "i", "d", "e">>, INDEX, <<"v", "1">> \o DOT_MD}
UrlStems == {INDEX, <<"i", "n", "t", "r", "o">>, <<"a">> \o DOT_MD,
             <<"p">> \o DOT_HTML, <<"m", "y">> \o INDEX}
UrlDirs ==
    {<<>>} \cup {<<d>> : d \in UrlDirNames}
    \cup {<<d, e>> : d \in UrlDirNames, e \in UrlDirNames}
UrlFiles == {dirs \o <<stem \o DOT_MD>> : dirs \in UrlDirs, stem \in UrlStems}
UrlBases == {<<"/">>, <<"/", "d", "o", "c", "s", "/">>}

\* A Markdown file below the docs root is about to be given its URL path.
ChooseFile ==
    /\ url_impl = "none" \/ url_path # <<>>
    /\ url_file' \in UrlFiles
    /\ url_base' \in UrlBases
    /\ url_impl' \in {"generate_url_path", "_generate_url_path"}
    /\ url_path' = <<>>
    /\ UNCHANGED exceptUrl

GenerateUrlPath ==
    /\ url_impl # "none"
    /\ url_path = <<>>
    /\ url_path' = IF url_impl = "generate_url_path"
                   THEN generate_url_path(url_file, url_base)
                   ELSE _generate_url_path(url_file, url_base)
    /\ UNCHANGED <<exceptUrl, url_file, url_base, url_impl>>

\* ------------------------------------------------------ the search indexer
\* HTML is a sequence of tokens, a token being a tag or a run of text.
Tags == {"<h1>", "</h1>", "<p>", "</p>", "<script>", "</script>"}

\* SearchIndexer._extract_text_content: scripts and tags are removed, the
\* text that is left is kept in order.
RECURSIVE dropScripts(_, _)
dropScripts(html, inScript) ==
    IF html = <<>> THEN <<>>
    ELSE IF Head(html) = "<script>" THEN dropScripts(Tail(html), TRUE)
    ELSE IF Head(html) = "</script>" THEN dropScripts(Tail(html), FALSE)
    ELSE IF inScript THEN dropScripts(Tail(html), TRUE)
    ELSE <<Head(html)>> \o dropScripts(Tail(html), FALSE)
_extract_text_content(html) ==
    SelectSeq(dropScripts(html, FALSE), LAMBDA tok : tok \notin Tags)

\* SearchIndexer._extract_headings: the text of every heading element.
RECURSIVE _extract_headings(_)
_extract_headings(html) ==
    IF Len(html) < 3 THEN <<>>
    ELSE IF html[1] = "<h1>" /\ html[2] \notin Tags /\ html[3] = "</h1>"
    THEN <<html[2]>> \o _extract_headings(SubSeq(html, 4, Len(html)))
    ELSE _extract_headings(Tail(html))

\* SearchIndexer.add_document: the documents after the call.
InsertFirst_add_document(docs, file_info) ==
    <<[url |-> file_info.url_path,
       title |-> file_info.title,
       content |-> _extract_text_content(file_info.html_content),
       headings |-> _extract_headings(file_info.html_content),
       description |-> file_info.description]>> \o docs
add_document(docs, file_info) ==
    Append(docs,
           [url |-> file_info.url_path,
            title |-> file_info.title,
            content |-> _extract_text_content(file_info.html_content),
            headings |-> _extract_headings(file_info.html_content),
            description |-> file_info.description])

\* SearchIndexer.add_page, called with url, title and content.
add_page(docs, url, title, content) ==
    Append(docs,
           [url |-> url,
            title |-> title,
            content |-> IF \E i \in 1..Len(content) : content[i] \in Tags
                        THEN _extract_text_content(content)
                        ELSE content,
            headings |-> <<>>,
            description |-> ""])

\* SearchIndexer.get_index_data, and the list generate_index writes as JSON.
get_index_data(docs) ==
    [i \in 1..Len(docs) |->
        [url |-> docs[i].url, title |-> docs[i].title,
         content |-> docs[i].content, headings |-> docs[i].headings,
         description |-> docs[i].description]]

\* SearchIndexer.get_document_count
get_document_count(docs) == Len(docs)

\* The pages of the sample.
MaxDocs == 3
PageUrls == {<<"/", "a", "/">>, <<"/", "b", "/">>, <<"/">>}
PageTitles == {"Home", "Guide"}
PageHtml == {<<>>, <<"<h1>", "Guide", "</h1>", "<p>", "text", "</p>">>,
             <<"<script>", "code", "</script>", "text">>}

\* indexer.add_document(file_info)
AddDocument ==
    /\ Len(documents) < MaxDocs
    /\ \E u \in PageUrls, t \in PageTitles, h \in PageHtml :
          /\ documents' = add_document(documents,
                [url_path |-> u, title |-> t, description |-> "",
                 html_content |-> h])
          /\ added' = Append(added, [url |-> u, title |-> t])
    /\ UNCHANGED exceptIndexer

\* indexer.add_page(url, title, content)
AddPage ==
    /\ Len(documents) < MaxDocs
    /\ \E u \in PageUrls, t \in PageTitles, h \in PageHtml :
          /\ documents' = add_page(documents, u, t, h)
          /\ added' = Append(added, [url |-> u, title |-> t])
    /\ UNCHANGED exceptIndexer

\* indexer.clear()
Clear ==
    /\ documents' = <<>>
    /\ added' = <<>>
    /\ UNCHANGED exceptIndexer

\* -------------------------------------------------------- the build engine
\* The Markdown files of the project, in the order sorted(rglob("*.md"))
\* visits them: bad.md, guide/intro.md, index.md.
BadMd == <<<<"b", "a", "d">> \o DOT_MD>>
IntroMd == <<<<"g", "u", "i", "d", "e">>, <<"i", "n", "t", "r", "o">> \o DOT_MD>>
IndexMd == <<INDEX \o DOT_MD>>
SortedMdFiles == <<BadMd, IntroMd, IndexMd>>
MdFiles == {SortedMdFiles[i] : i \in 1..Len(SortedMdFiles)}

\* What a file holds: valid front matter, a front-matter block that is not
\* valid YAML, or bytes that read_text(encoding="utf-8") cannot decode.
FileKinds == {"good", "bad_yaml", "unreadable"}

\* config.site.base of the sample project.
SiteBase == <<"/">>

\* MarkdownProcessor.extract_frontmatter: yaml.YAMLError is caught and the
\* front matter taken to be empty.
extract_frontmatter(kind) ==
    IF kind = "good" THEN [title |-> "Title", description |-> "About"]
    ELSE [title |-> "", description |-> ""]

\* MarkdownProcessor.process_file: the page, or the exception raised.
process_file(file, kind) ==
    IF kind = "unreadable"
    THEN [raised |-> TRUE, page |-> [file_path |-> file]]
    ELSE LET frontmatter == extract_frontmatter(kind)
             toc == <<"Heading">>
         IN [raised |-> FALSE,
             page |-> [file_path |-> file,
                       url_path |-> _generate_url_path(file, SiteBase),
                       title |-> IF frontmatter.title # ""
                                 THEN frontmatter.title
                                 ELSE toc[1],
                       description |-> frontmatter.description,
                       content_html |-> <<"<h1>", "Heading", "</h1>",
                                          "<p>", "text", "</p>">>]]

\* BuildEngine._add_to_search_index
_add_to_search_index(docs, page) ==
    add_document(docs, [title |-> page.title,
                        url_path |-> page.url_path,
                        description |-> page.description,
                        html_content |-> page.content_html])

\* The try and except arms of the loop of _process_markdown_files, lines
\* 196-209, given what process_file did.
processed_or_warned(acc, file, done) ==
    IF done.raised
    THEN [acc EXCEPT !.warnings = Append(@, [about |-> "process",
                                             file |-> file])]
    ELSE [acc EXCEPT !.pages = Append(@, done.page),
                     !.documents = _add_to_search_index(@, done.page)]

\* One turn of the loop of _process_markdown_files on the lists built so far.
IndexBeforeProcessing_process_one(acc, file, kind) ==
    processed_or_warned(
        [acc EXCEPT !.documents =
            IF kind = "unreadable"
            THEN add_page(@, _generate_url_path(file, SiteBase), "", <<>>)
            ELSE @],
        file, process_file(file, kind))
process_one(acc, file, kind) ==
    processed_or_warned(acc, file, process_file(file, kind))

RECURSIVE process_from(_, _, _)
process_from(i, kinds, acc) ==
    IF i > Len(SortedMdFiles) THEN acc
    ELSE process_from(i + 1, kinds,
                      process_one(acc, SortedMdFiles[i], kinds[SortedMdFiles[i]]))

\* BuildEngine._process_markdown_files: a missing docs directory raises
\* BuildError, otherwise every file found is processed in turn.
MissingDocsTolerated_process_markdown_files(exists, kinds, docs) ==
    IF ~exists
    THEN [raised |-> FALSE, pages |-> <<>>, warnings |-> <<>>,
          errors |-> <<>>, documents |-> docs]
    ELSE process_from(1, kinds, [raised |-> FALSE, pages |-> <<>>,
                                 warnings |-> <<>>, errors |-> <<>>,
                                 documents |-> docs])
_process_markdown_files(exists, kinds, docs) ==
    IF ~exists
    THEN [raised |-> TRUE, pages |-> <<>>, warnings |-> <<>>,
          errors |-> <<>>, documents |-> docs]
    ELSE process_from(1, kinds, [raised |-> FALSE, pages |-> <<>>,
                                 warnings |-> <<>>, errors |-> <<>>,
                                 documents |-> docs])

\* str.strip("/")
RECURSIVE lstrip(_, _)
lstrip(str, ch) ==
    IF str # <<>> /\ Head(str) = ch THEN lstrip(Tail(str), ch) ELSE str
strip(str, ch) == lstrip(rstrip(str, ch), ch)

\* BuildEngine._get_output_path, as the path below the output directory.
_get_output_path(url) ==
    LET base == rstrip(SiteBase, "/")
        rel == IF base # <<>> /\ startswith(url, base)
               THEN SubSeq(url, Len(base) + 1, Len(url))
               ELSE url
        clean_path == strip(rel, "/")
    IN IF clean_path = <<>> THEN <<"index.html">>
       ELSE clean_path \o <<"/", "index.html">>

\* The project has no static directory, so _copy_static_assets returns at
\* once. The files of the output directory: each has a name and the number of the
\* build that wrote it, 0 for a file that was there before the first build.
SearchIndexJson == <<"search-index.json">>
NoJekyll == <<".nojekyll">>
ThemeAsset == <<"assets", "/", "style.css">>
OldFile == <<"old.html">>
write(files, name, g) ==
    {f \in files : f.name # name} \cup {[name |-> name, gen |-> g]}

\* BuildEngine._clean_output_dir
KeepOutput_clean_output_dir(out) == out
_clean_output_dir(out) ==
    IF out.exists THEN [exists |-> FALSE, files |-> {}] ELSE out

\* Path.mkdir(parents=True, exist_ok=True)
mkdir(out) == [exists |-> TRUE, files |-> out.files]

\* BuildEngine._generate_pages: a page whose rendering raises adds a warning.
RECURSIVE _generate_pages(_, _, _, _)
_generate_pages(pages, failing, files, g) ==
    IF pages = <<>> THEN [files |-> files, warnings |-> <<>>]
    ELSE LET page == Head(pages)
             rest == _generate_pages(Tail(pages), failing,
                        IF page.file_path \in failing THEN files
                        ELSE write(files, _get_output_path(page.url_path), g),
                        g)
         IN IF page.file_path \in failing
            THEN [rest EXCEPT !.warnings =
                     <<[about |-> "generate", file |-> page.file_path]>> \o @]
            ELSE rest

\* The BuildResult returned at lines 152-158 of build.
BuildResult(errors, warnings, pages_built) ==
    [success |-> Len(errors) = 0, pages_built |-> pages_built,
     errors |-> errors, warnings |-> warnings]

\* The except arm of build, lines 161-171: the exception's message joins the
\* errors; pages_built is still 0 when _process_markdown_files raised.
SuccessOnFailure_build_failed(errors, warnings, message) ==
    [success |-> TRUE, pages_built |-> 0,
     errors |-> Append(errors, message), warnings |-> warnings]
build_failed(errors, warnings, message) ==
    [success |-> FALSE, pages_built |-> 0,
     errors |-> Append(errors, message), warnings |-> warnings]

\* Lines 135-158 of build: pages, theme assets, the search index and
\* .nojekyll are written and the result is returned.
write_site(processed, generated, g) ==
    [out |-> [exists |-> TRUE,
              files |-> write(write(write(generated.files, ThemeAsset, g),
                                    SearchIndexJson, g),
                              NoJekyll, g)],
     index |-> get_index_data(processed.documents),
     documents |-> processed.documents,
     pages |-> processed.pages,
     result |-> BuildResult(processed.errors,
                            processed.warnings \o generated.warnings,
                            Len(processed.pages))]

\* Lines 130-171 of build, given the output directory after mkdir and what
\* _process_markdown_files did: its BuildError is caught and reported.
process_and_write(made, processed, failing, index, pages, g) ==
    IF processed.raised
    THEN [out |-> made,
          index |-> IF \E f \in made.files : f.name = SearchIndexJson
                    THEN index ELSE <<>>,
          documents |-> processed.documents,
          pages |-> pages,
          result |-> build_failed(processed.errors, processed.warnings,
                                  "Docs directory not found")]
    ELSE write_site(processed,
                    _generate_pages(processed.pages, failing, made.files, g),
                    g)

\* BuildEngine.build(clean): everything the call leaves behind. `failing`
\* are the files whose page _generate_page fails to render or write.
build(clean, failing, exists, kinds, out, index, docs, pages, g) ==
    process_and_write(mkdir(IF clean THEN _clean_output_dir(out) ELSE out),
                      _process_markdown_files(exists, kinds, docs),
                      failing, index, pages, g)

\* The builds of one run.
MaxBuilds == 2

\* A project is laid out: the docs directory with its files, or none, and
\* an output directory that is missing, empty or holds a file.
CreateProject ==
    /\ project = "none"
    /\ project' = "ready"
    /\ docs_exists' \in BOOLEAN
    /\ IF docs_exists'
       THEN docs_kinds' \in [MdFiles -> FileKinds]
       ELSE docs_kinds' = [f \in MdFiles |-> "good"]
    /\ dist' \in {[exists |-> FALSE, files |-> {}],
                  [exists |-> TRUE, files |-> {}],
                  [exists |-> TRUE, files |-> {[name |-> OldFile, gen |-> 0]}]}
    /\ UNCHANGED <<exceptBuild, documents, index_json, _processed_pages,
                   result, nbuilds, last, builds>>

\* engine.build(clean=...)
Build ==
    /\ project = "ready"
    /\ nbuilds < MaxBuilds
    /\ \E clean \in BOOLEAN :
       \E failing \in {{}} \cup {{f} : f \in MdFiles} :
       \E g \in {nbuilds + 1} :
       \E b \in {build(clean, failing, docs_exists, docs_kinds, dist,
                       index_json, documents, _processed_pages, g)} :
             /\ dist' = b.out
             /\ index_json' = b.index
             /\ documents' = b.documents
             /\ _processed_pages' = b.pages
             /\ result' = b.result
             /\ nbuilds' = g
             /\ last' = [clean |-> clean, failing |-> failing,
                         names_before |-> {f.name : f \in dist.files},
                         documents_before |-> Len(documents)]
             /\ builds' = Append(builds, [clean |-> clean, index |-> b.index])
    /\ UNCHANGED <<exceptBuild, project, docs_exists, docs_kinds>>

\* BuildEngine(project_root, config): a new engine for the same project.
NewEngine ==
    /\ project = "ready"
    /\ nbuilds >= 1
    /\ nbuilds < MaxBuilds
    /\ documents # <<>> \/ _processed_pages # <<>>
    /\ documents' = <<>>
    /\ _processed_pages' = <<>>
    /\ UNCHANGED <<exceptBuild, project, docs_exists, docs_kinds, dist,
                   index_json, result, nbuilds, last, builds>>

\* ----------------------------------------------------------- base path
HTTP == <<"h", "t", "t", "p", ":", "/", "/">>
HTTPS == <<"h", "t", "t", "p", "s", ":", "/", "/">>
SLASHES == <<"/", "/">>
HASH == <<"#">>

\* str.startswith(("http://", "https://", "//", "#"))
is_external(url) ==
    \/ startswith(url, HTTP)
    \/ startswith(url, HTTPS)
    \/ startswith(url, SLASHES)
    \/ startswith(url, HASH)

\* apply_base_path(url, base_path)
BaseNotNormalized_apply_base_path(url, base_path) ==
    IF is_external(url) THEN url
    ELSE IF rstrip(base_path, "/") = <<>> THEN url
    ELSE base_path \o (IF startswith(url, <<"/">>) THEN url ELSE <<"/">> \o url)
apply_base_path(url, base_path) ==
    IF is_external(url) THEN url
    ELSE LET base == rstrip(base_path, "/")
         IN IF base = <<>> \/ base = <<"/">> THEN url
            ELSE base \o (IF startswith(url, <<"/">>) THEN url ELSE <<"/">> \o url)

\* The links and base paths tried: absolute internal links, one of them
\* already below the base, relative links, external links and anchors; the
\* root base, bases with and without a trailing slash, a nested base.
BaseLinks ==
    {<<"/">>, <<"/", "a">>, <<"/", "a", "/", "b", ".", "c">>,
     <<"/", "d", "/", "a">>, <<"/", "a", "/">>, <<"/", "#", "a">>,
     <<"a">>, <<"a", "/", "b">>, <<"h", "t", "t", "p", ":", "/", "a">>,
     HTTP \o <<"e">>, HTTPS \o <<"e", "/", "a">>, SLASHES \o <<"c", "/", "f">>,
     HASH, HASH \o <<"s">>}
BasePaths ==
    {<<"/">>, <<"/", "d", "/">>, <<"/", "d">>, <<"/", "d", "/", "v", "/">>,
     <<"/", "d", "/", "/">>, <<"/", "/">>, <<>>}

\* A link and a base path are picked for the next call.
ChooseLink ==
    /\ abp_url = <<>> \/ abp_result.called
    /\ abp_url' \in BaseLinks
    /\ abp_base' \in BasePaths
    /\ abp_result' = NotApplied
    /\ UNCHANGED exceptBase

\* result = apply_base_path(url, base_path)
ApplyBasePath ==
    /\ abp_url # <<>>
    /\ ~abp_result.called
    /\ abp_result' = [called |-> TRUE, url |-> apply_base_path(abp_url, abp_base)]
    /\ UNCHANGED <<exceptBase, abp_url, abp_base>>

\* ---------------------------------------------------- table of contents
\* The number of "#" a string starts with.
RECURSIVE leading_hashes(_)
leading_hashes(str) ==
    IF str # <<>> /\ Head(str) = "#" THEN 1 + leading_hashes(Tail(str)) ELSE 0

\* Group 2 of heading_pattern, (.+?)(?:\s+#*)?$ on a string that ends in no
\* space: the shortest text that leaves nothing, or spaces followed by "#"s.
heading_text(rest) ==
    IF rstrip(rest, "#") # <<>>
       /\ rstrip(rest, "#")[Len(rstrip(rest, "#"))] = " "
       /\ rstrip(rstrip(rest, "#"), " ") # <<>>
    THEN rstrip(rstrip(rest, "#"), " ")
    ELSE rest

\* re.match(heading_pattern, line.strip()) with
\* heading_pattern = ^(#{1,6})\s+(.+?)(?:\s+#*)?$
MaxHeadingLevel == 6
match_heading(stripped, hashes) ==
    IF hashes \in 1..MaxHeadingLevel
       /\ Len(stripped) > hashes
       /\ stripped[hashes + 1] = " "
    THEN [matched |-> TRUE, level |-> hashes,
          text |-> heading_text(lstrip(SubSeq(stripped, hashes + 1,
                                              Len(stripped)), " "))]
    ELSE [matched |-> FALSE, level |-> 0, text |-> <<>>]

\* re.sub(r"\s+", "-", anchor)
RECURSIVE spaces_to_hyphen(_)
spaces_to_hyphen(str) ==
    IF str = <<>> THEN <<>>
    ELSE IF Head(str) = " "
         THEN <<"-">> \o spaces_to_hyphen(lstrip(str, " "))
         ELSE <<Head(str)>> \o spaces_to_hyphen(Tail(str))

\* \w for the characters used here: letters, digits and "_".
is_word(c) ==
    \/ \E i \in 1..Len(Lower) : c = Lower[i] \/ c = Upper[i]
    \/ isDigit(c)
    \/ c = "_"

\* re.sub(r"[^\w\-]", "", anchor)
keep_word_and_hyphen(str) ==
    SelectSeq(str, LAMBDA c : is_word(c) \/ c = "-")

\* re.sub(r"-+", "-", anchor)
RECURSIVE collapse_hyphens(_)
collapse_hyphens(str) ==
    IF str = <<>> THEN <<>>
    ELSE IF Head(str) = "-"
         THEN <<"-">> \o collapse_hyphens(lstrip(str, "-"))
         ELSE <<Head(str)>> \o collapse_hyphens(Tail(str))

\* MarkdownProcessor._generate_anchor
_generate_anchor(text) ==
    strip(collapse_hyphens(keep_word_and_hyphen(spaces_to_hyphen(lower(text)))),
          "-")

\* One turn of the loop of extract_toc, given the match of the line.
toc_append(toc_items, found) ==
    IF found.matched
    THEN Append(toc_items, [level |-> found.level, text |-> found.text,
                            anchor |-> _generate_anchor(found.text)])
    ELSE toc_items

\* MarkdownProcessor.extract_toc on the lines of content.split("\n");
\* _build_toc_hierarchy returns the list as it is.
RECURSIVE extract_toc_from(_, _)
extract_toc_from(lines, toc_items) ==
    IF lines = <<>> THEN toc_items
    ELSE extract_toc_from(Tail(lines),
            toc_append(toc_items,
                       match_heading(strip(Head(lines), " "),
                                     leading_hashes(strip(Head(lines), " ")))))
extract_toc(lines) == extract_toc_from(lines, <<>>)

\* The lines a body is made of: headings of level 1 to 3, one with closing
\* "#"s, one with spaces around it; a paragraph; "#t" and seven "#"s, which
\* are paragraphs too; and the fence that opens or closes a code block.
FENCE == <<"~", "~", "~">>
TocLines ==
    {<<"#", " ", "A", " ", "b">>,
     <<"#", "#", " ", "c", "!", " ", "#">>,
     <<" ", "#", "#", "#", " ", "B", " ">>,
     <<"t">>,
     <<"#", "t">>,
     <<"#", "#", "#", "#", "#", "#", "#", " ", "x">>,
     FENCE}
MaxLines == 3
TocBodies == UNION {[1..n -> TocLines] : n \in 1..MaxLines}

\* A body is written for the next call.
ChooseBody ==
    /\ toc_body = <<>> \/ toc_result.called
    /\ toc_body' \in TocBodies
    /\ toc_result' = NoToc
    /\ UNCHANGED exceptToc

\* toc = self.extract_toc(body)
ExtractToc ==
    /\ toc_body # <<>>
    /\ ~toc_result.called
    /\ toc_result' = [called |-> TRUE, items |-> extract_toc(toc_body)]
    /\ UNCHANGED <<exceptToc, toc_body>>

\* ------------------------------------------------------ page navigation
\* The Markdown files a project may hold, in the order sorted() gives
\* paths, part by part: a/b.md, a/index.md, a/z.md, a.md, c.md, index.md.
NavPool ==
    <<<<<<"a">>, <<"b">> \o DOT_MD>>,
      <<<<"a">>, INDEX \o DOT_MD>>,
      <<<<"a">>, <<"z">> \o DOT_MD>>,
      <<<<"a">> \o DOT_MD>>,
      <<<<"c">> \o DOT_MD>>,
      <<INDEX \o DOT_MD>>>>

\* sorted(self.docs_dir.rglob("*.md")) for the files that exist.
sorted_files(present) == SelectSeq(NavPool, LAMBDA f : f \in present)

\* The loop of _process_markdown_files over files that all process.
RECURSIVE process_all(_)
process_all(files) ==
    IF files = <<>> THEN <<>>
    ELSE <<process_file(Head(files), "good").page>> \o process_all(Tail(files))

\* The dictionary built for a neighbour, and None.
NoPage == [title |-> "", url |-> <<>>]
page_link(page) == [title |-> page.title, url |-> page.url_path]

\* The loop of lines 358-361: the first index whose url_path is that of the
\* current page, 0 when there is none.
current_index(pages, url) ==
    IF \E i \in 1..Len(pages) : pages[i].url_path = url
    THEN CHOOSE i \in 1..Len(pages) :
            /\ pages[i].url_path = url
            /\ \A k \in 1..(i - 1) : pages[k].url_path # url
    ELSE 0

\* Lines 363-378 of _get_prev_next_pages, given the index found.
neighbours(pages, idx) ==
    IF idx = 0 THEN [prev |-> NoPage, next |-> NoPage]
    ELSE [prev |-> IF idx > 1 THEN page_link(pages[idx - 1]) ELSE NoPage,
          next |-> IF idx < Len(pages) THEN page_link(pages[idx + 1])
                   ELSE NoPage]

\* BuildEngine._get_prev_next_pages
_get_prev_next_pages(pages, current_page) ==
    neighbours(pages, current_index(pages, current_page.url_path))

\* The files of a project are written.
ChooseFiles ==
    /\ nav_files = <<>> \/ nav_built
    /\ \E present \in SUBSET {NavPool[i] : i \in 1..Len(NavPool)} :
          /\ present # {}
          /\ nav_files' = sorted_files(present)
    /\ nav_pages' = <<>>
    /\ nav_written' = {}
    /\ nav_context' = <<>>
    /\ nav_built' = FALSE
    /\ UNCHANGED exceptNav

\* engine.build(clean=True) of these files: every file is processed and
\* every page generated, each with the context _create_page_context gives it.
BuildSite ==
    /\ nav_files # <<>>
    /\ ~nav_built
    /\ \E pages \in {process_all(nav_files)} :
          /\ nav_pages' = pages
          /\ nav_written' =
                {f.name : f \in _generate_pages(pages, {}, {}, 1).files}
          /\ nav_context' =
                [i \in 1..Len(pages) |-> _get_prev_next_pages(pages, pages[i])]
    /\ nav_built' = TRUE
    /\ UNCHANGED <<exceptNav, nav_files>>

\* -------------------------------------------------------- link rewriting
MAILTO == <<"m", "a", "i", "l", "t", "o", ":">>

\* href.startswith(("http://", "https://", "mailto:", "#"))
is_skipped_link(link) ==
    \/ startswith(link, HTTP)
    \/ startswith(link, HTTPS)
    \/ startswith(link, MAILTO)
    \/ startswith(link, HASH)

\* Lines 147-152: the path without .md loses a trailing index and gets a
\* trailing slash.
clean_md_path(clean_path) ==
    IF endswith(clean_path, <<"/">> \o INDEX) \/ clean_path = INDEX
    THEN IF endswith(rsplit1_head(clean_path, INDEX), <<"/">>)
         THEN rsplit1_head(clean_path, INDEX)
         ELSE rsplit1_head(clean_path, INDEX) \o <<"/">>
    ELSE IF endswith(clean_path, <<"/">>) THEN clean_path
    ELSE clean_path \o <<"/">>

\* MarkdownProcessor._transform_md_link
_transform_md_link(link) ==
    IF is_skipped_link(link) THEN link
    ELSE IF endswith(link, DOT_MD)
         THEN clean_md_path(SubSeq(link, 1, Len(link) - 3))
         ELSE link

\* The hrefs tried: a prefix, a name and an ending.
LinkPrefixes ==
    {<<>>, <<".", "/">>, <<"d", "/">>, <<"/">>, SLASHES \o <<"c", "/">>,
     HTTP \o <<"e", "/">>, HTTPS \o <<"e", "/">>, MAILTO, HASH}
LinkNames == {<<>>, <<"a">>, INDEX, <<"x">> \o INDEX, <<"a">> \o DOT_MD}
LinkEndings == {DOT_MD, DOT_HTML, DOT_MD \o HASH \o <<"s">>, <<"/">>}
Hrefs == {pre \o name \o ending :
             pre \in LinkPrefixes, name \in LinkNames, ending \in LinkEndings}

\* A link is written in a page.
ChooseHref ==
    /\ href = <<>> \/ href_result.called
    /\ href' \in Hrefs
    /\ href_result' = NotApplied
    /\ UNCHANGED exceptLink

\* transformed_href = self._transform_md_link(href)
TransformLink ==
    /\ href # <<>>
    /\ ~href_result.called
    /\ href_result' = [called |-> TRUE, url |-> _transform_md_link(href)]
    /\ UNCHANGED <<exceptLink, href>>

\* ------------------------------------------------------- rebuild cycle
\* A source file is changed and the observer hands the event to the handler:
\* _schedule_rebuild, under its lock, cancels the timer it holds (which stops
\* a timer that has not fired, and does nothing to one that has) and starts a
\* new one.
ChangeSource ==
    /\ src_version < MaxEdits
    /\ src_version' = src_version + 1
    /\ debounce' = [k \in Edits |->
                      IF k = src_version + 1 THEN "pending"
                      ELSE cancelled(debounce[k])]
    /\ UNCHANGED <<exceptFresh, building, read_version, out_version>>

\* The debounce delay has passed: the timer's thread calls _rebuild, and
\* builder.build(clean=False) begins.
DebounceFire(k) ==
    /\ debounce[k] = "pending"
    /\ debounce' = [debounce EXCEPT ![k] = "fired"]
    /\ building' = [building EXCEPT ![k] = "reading"]
    /\ UNCHANGED <<exceptFresh, src_version, read_version, out_version>>

\* _process_markdown_files reads the sources as they are now.
ReadSources(k) ==
    /\ building[k] = "reading"
    /\ read_version' = [read_version EXCEPT ![k] = src_version]
    /\ building' = [building EXCEPT ![k] = "writing"]
    /\ UNCHANGED <<exceptFresh, src_version, debounce, out_version>>

\* _generate_pages writes the pages made from what was read; build returns.
WriteOutput(k) ==
    /\ building[k] = "writing"
    /\ out_version' = read_version[k]
    /\ building' = [building EXCEPT ![k] = "done"]
    /\ UNCHANGED <<exceptFresh, src_version, debounce, read_version>>

\* ---------------------------------------------------------- specifications
\* The development server: DevServer.start to stop(), one observer thread,
\* the timer threads and one browser.
Next ==
    \/ Tick
    \/ StartInitialBuild
    \/ FindPort
    \/ StartFileWatcher
    \/ HttpCheckOutputDir
    \/ HttpLoadStamp
    \/ HttpStoreStamp
    \/ HttpBind
    \/ StopRunning
    \/ StopObserver
    \/ JoinObserver
    \/ ShutdownServer
    \/ \E w \in ObserverThread : Deliver(w)
    \/ \E w \in ObserverThread : Acquire(w)
    \/ \E w \in ObserverThread : CancelTimer(w)
    \/ \E w \in ObserverThread : AssignTimer(w)
    \/ \E w \in ObserverThread : StartTimer(w)
    \/ \E i \in Timers : TimerFire(i)
    \/ \E i \in Timers : BuildReturn(i)
    \/ \E i \in Timers : StampHandler(i)
    \/ \E i \in Timers : CallbackTime(i)
    \/ \E i \in Timers : CallbackStore(i)
    \/ \E i \in Timers : CallbackLoad(i)
    \/ \E i \in Timers : CallbackSet(i)
    \/ ServePage
    \/ ScriptStart
    \/ PollCheck
    \/ PollReply

Spec == Init /\ [][Next]_vars

\* The start and stop sequence with the observer and the timer threads; the
\* clock and the browser, which no guard of these actions reads, stand still.
LifecycleNext ==
    \/ StartInitialBuild
    \/ FindPort
    \/ StartFileWatcher
    \/ HttpCheckOutputDir
    \/ HttpLoadStamp
    \/ HttpStoreStamp
    \/ HttpBind
    \/ StopRunning
    \/ StopObserver
    \/ JoinObserver
    \/ ShutdownServer
    \/ \E w \in ObserverThread : Deliver(w)
    \/ \E w \in ObserverThread : Acquire(w)
    \/ \E w \in ObserverThread : CancelTimer(w)
    \/ \E w \in ObserverThread : AssignTimer(w)
    \/ \E w \in ObserverThread : StartTimer(w)
    \/ \E i \in Timers : TimerFire(i)
    \/ \E i \in Timers : BuildReturn(i)
    \/ \E i \in Timers : StampHandler(i)
    \/ \E i \in Timers : CallbackTime(i)
    \/ \E i \in Timers : CallbackStore(i)
    \/ \E i \in Timers : CallbackLoad(i)
    \/ \E i \in Timers : CallbackSet(i)

LifecycleSpec == Init /\ [][LifecycleNext]_vars

\* The state DevServer.start reaches when the initial build succeeded and the
\* listener is bound; no event was delivered yet.  ServingControl is that
\* state but for the clock and the timestamps taken from it.
ServingControl ==
    /\ mainPc = "serving"
    /\ _running = TRUE
    /\ observer = "running"
    /\ server = "serving"
    /\ port = DEFAULT_PORT
    /\ initBuild = "ok"
    /\ everStarted = {"watcher", "listener"}
    /\ wpc = [w \in Watchers |-> "idle"]
    /\ _lock = "free"
    /\ rebuild_timer = 0
    /\ nTimers = 0
    /\ on_rebuild = "set"
    /\ intact = TRUE
    /\ afterRaise = {}
    /\ timer = [i \in Timers |-> "unused"]
    /\ rebuild = [i \in Timers |-> "idle"]
    /\ outcome = [i \in Timers |-> "none"]
    /\ buildEnd = [i \in Timers |-> 0]
    /\ r = [i \in Timers |-> 0]
    /\ lateStart = FALSE
    /\ callbacks = [i \in Timers |-> 0]
    /\ early = {}
    /\ handler_lrt = 0
    /\ hpc = "idle"
    /\ should_reload = FALSE
    /\ client = "none"
    /\ lastCheck = 0
    /\ stale = FALSE

ServingState ==
    /\ ServingControl
    /\ now = 1
    /\ mainTmp = 1
    /\ _last_rebuild_time = 1
    /\ http_lrt = 1

\* LiveReloadHandler while the server is serving; its methods are called from
\* any of the watcher threads.
HandlerInit ==
    /\ ServingState
    /\ fsEvent = NoEvent
    /\ scheduled = "unknown"
    /\ ToolsIdle

HandlerNext ==
    \/ Tick
    \/ \E w \in Watchers : Deliver(w)
    \/ \E w \in Watchers : Acquire(w)
    \/ \E w \in Watchers : CancelTimer(w)
    \/ \E w \in Watchers : AssignTimer(w)
    \/ \E w \in Watchers : StartTimer(w)
    \/ \E i \in Timers : TimerFire(i)
    \/ \E i \in Timers : BuildReturn(i)
    \/ \E i \in Timers : StampHandler(i)
    \/ \E i \in Timers : CallbackTime(i)
    \/ \E i \in Timers : CallbackStore(i)
    \/ \E i \in Timers : CallbackLoad(i)
    \/ \E i \in Timers : CallbackSet(i)

HandlerSpec == HandlerInit /\ [][HandlerNext]_vars

\* The event filter alone: one filesystem event reaches the handler of a
\* serving server, and the handler decides whether to schedule a rebuild.
FilterInit ==
    /\ ServingState
    /\ fsEvent \in Events
    /\ scheduled = "unknown"
    /\ ToolsIdle

\* FileSystemEventHandler.dispatch(event) with the handlers of lines 90-114.
DispatchEvent ==
    /\ scheduled = "unknown"
    /\ scheduled' = IF dispatch(fsEvent) THEN "yes" ELSE "no"
    /\ UNCHANGED <<now, mainVars, handlerVars, timerVars, stampVars, httpVars,
                   fsEvent,
                   toolVars>>

FilterSpec == FilterInit /\ [][DispatchEvent]_vars

\* The livereload endpoint alone: a serving server whose last rebuild was at
\* some moment up to now answers check requests while time passes.
CheckInit ==
    /\ ServingControl
    /\ now \in 1..MaxClock
    /\ http_lrt \in 1..now
    /\ _last_rebuild_time = http_lrt
    /\ mainTmp = 1
    /\ fsEvent = NoEvent
    /\ scheduled = "unknown"
    /\ ToolsIdle

CheckNext ==
    \/ Tick
    \/ SendCheck
    \/ HandleCheck
    \/ ReceiveReply

CheckSpec == CheckInit /\ [][CheckNext]_vars

\* The port search alone.
PortNext ==
    \/ ChoosePorts
    \/ FindAvailablePort

PortSpec == Init /\ [][PortNext]_vars

\* URL path generation alone.
UrlNext ==
    \/ ChooseFile
    \/ GenerateUrlPath

UrlSpec == Init /\ [][UrlNext]_vars

\* A SearchIndexer alone.
IndexerNext ==
    \/ AddDocument
    \/ AddPage
    \/ Clear

IndexerSpec == Init /\ [][IndexerNext]_vars

\* A project and its build engine alone.
BuildNext ==
    \/ CreateProject
    \/ Build
    \/ NewEngine

BuildSpec == Init /\ [][BuildNext]_vars

\* apply_base_path alone.
BaseNext ==
    \/ ChooseLink
    \/ ApplyBasePath

BaseSpec == Init /\ [][BaseNext]_vars

\* extract_toc alone.
TocNext ==
    \/ ChooseBody
    \/ ExtractToc

TocSpec == Init /\ [][TocNext]_vars

\* One build of a project of files that all process.
NavNext ==
    \/ ChooseFiles
    \/ BuildSite

NavSpec == Init /\ [][NavNext]_vars

\* _transform_md_link alone.
LinkNext ==
    \/ ChooseHref
    \/ TransformLink

LinkSpec == Init /\ [][LinkNext]_vars

\* The rebuild cycle alone. A started timer fires when its delay has passed
\* and a build that has begun runs to its end; changes of the sources may
\* stop at any time.
FreshNext ==
    \/ ChangeSource
    \/ \E k \in Edits : DebounceFire(k)
    \/ \E k \in Edits : ReadSources(k)
    \/ \E k \in Edits : WriteOutput(k)

FreshSpec ==
    /\ Init
    /\ [][FreshNext]_vars
    /\ \A k \in Edits : WF_vars(DebounceFire(k))
    /\ \A k \in Edits : WF_vars(ReadSources(k))
    /\ \A k \in Edits : WF_vars(WriteOutput(k))

\* ------------------------------------------------------------------ claims
RebuildStarted(i) == rebuild[i] # "idle"
Quiescent == \A w \in Watchers : ~InSchedule(w)

\* C1: debounce coalescing.  In a burst of qualifying events in which every
\* event after the first reaches the handler's timer before that timer has
\* fired (each cancel finds the stored timer still pending), only the timer
\* of the last event ever fires: at most one rebuild is started, by that
\* timer, and once the handler is at rest that timer is pending or has fired.
C1_DebounceCoalesces ==
    intact =>
        /\ \A i \in Timers : RebuildStarted(i) => i = nTimers
        /\ Cardinality({i \in Timers : RebuildStarted(i)}) <= 1
        /\ (Quiescent /\ nTimers >= 1) =>
              /\ timer[nTimers] \in {"pending", "fired"}
              /\ \A i \in 1..(nTimers - 1) : timer[i] = "cancelled"

\* A burst of two events that started exactly one rebuild, after the second.
C1_BurstOfTwoOneRebuild ==
    /\ intact
    /\ nTimers = 2
    /\ timer[1] = "cancelled"
    /\ RebuildStarted(2)

\* C2: rebuilds are strictly serialized: at most one builder.build called by
\* _rebuild is in progress in every reachable state.
C2_RebuildsSerialized ==
    Cardinality({i \in Timers : rebuild[i] = "building"}) <= 1

\* C3: a completed rebuild is never missed by a polling browser.  Between two
\* polls, a browser whose page was served before a rebuild completed sends a
\* timestamp that the shared timestamp exceeds, so that its next poll answers
\* reload=true.  (Where this fails every later poll answers reload=false
\* until another rebuild completes: the shared timestamp stays and the
\* browser's timestamp never decreases.)
C3_PollsCatchEveryRebuild ==
    (client = "idle" /\ stale) => livereload_check(http_lrt, lastCheck)

\* C4: a rebuild whose build returned a result, successful or not, has set
\* the timestamp the HTTP handler reads to a time not earlier than the end of
\* its build, and has called on_rebuild exactly once.
C4_StampNotBeforeBuildEnd ==
    \A i \in Timers :
        (rebuild[i] = "done" /\ outcome[i] \in {"ok", "failed"}) =>
            (i \notin early /\ callbacks[i] = 1)

\* C5: every write of a shared rebuild timestamp is made by a rebuild thread
\* that holds the handler's lock, two writers are never in the write section
\* together, and nothing else writes a timestamp while the server is serving.
InWriteSection(i) == rebuild[i] \in {"stamp", "cb_store", "cb_set"}
HoldsLock(i) == _lock \notin ({"free"} \cup Watchers) /\ _lock = i
C5_StampWritesUnderLock ==
    /\ \A i \in Timers : InWriteSection(i) => HoldsLock(i)
    /\ Cardinality({i \in Timers : InWriteSection(i)}) <= 1
    /\ mainPc = "http_store" => server # "serving"

\* C6: at most one debounce timer is pending at any time, whatever the
\* interleaving of the threads that deliver events.
C6_AtMostOnePendingTimer ==
    Cardinality({i \in Timers : timer[i] = "pending"}) <= 1

\* _schedule_rebuild ran twice: the second run cancelled the timer of the
\* first and its own timer is the one pending.
C6_CancelAndRestart ==
    /\ nTimers = 2
    /\ timer[1] = "cancelled"
    /\ timer[2] = "pending"

\* C7: after stop() has returned no rebuild is started, and no debounce timer
\* is left pending.
C7_NoRebuildAfterStop ==
    /\ ~lateStart
    /\ mainPc = "stopped" => \A i \in Timers : timer[i] # "pending"

\* C8: when builder.build raises in _rebuild, the step that handles the
\* exception ends _rebuild normally and changes nothing else: no timestamp is
\* written, on_rebuild is not called, and the handler, its timers, the
\* observer and the server are as before, so later events are handled as ever.
C8_RaiseIsContained ==
    [][\A i \in Timers :
          (rebuild[i] = "building" /\ outcome'[i] = "raised") =>
              /\ rebuild'[i] = "done"
              /\ stampVars' = stampVars
              /\ callbacks' = callbacks
              /\ handlerVars' = handlerVars
              /\ timer' = timer
              /\ mainVars' = mainVars]_vars

\* A rebuild raised, and an event handled after that led to a rebuild that
\* completed and called on_rebuild.
C8_RebuildAfterRaise ==
    \E i, j \in Timers :
        /\ outcome[i] = "raised"
        /\ rebuild[i] = "done"
        /\ j \in afterRaise
        /\ outcome[j] = "ok"
        /\ rebuild[j] = "done"
        /\ callbacks[j] = 1

\* C9: a failed initial build makes start raise with neither the watcher nor
\* the listener ever started; both are started only after a successful one.
C9_NoServingAfterFailedBuild ==
    /\ initBuild = "failed" =>
          (mainPc = "raised" /\ everStarted = {} /\ observer = "none"
           /\ server = "none")
    /\ (everStarted # {} \/ observer # "none" \/ server # "none") =>
          initBuild = "ok"

\* start has raised after a failed initial build.
C9_StartRaised ==
    /\ initBuild = "failed"
    /\ mainPc = "raised"

\* C10: an event schedules a rebuild exactly when it is a create, modify or
\* delete event of a non-directory path with no part that starts with ".",
\* not inside the output directory, whose extension, lowercased, is one of
\* the six relevant ones; an event inside the output directory never does.
HasHiddenPart(path) ==
    \E i \in DOMAIN path : path[i] # <<>> /\ Head(path[i]) = "."
InsideOutputDir(path) ==
    /\ Len(path) > Len(output_dir)
    /\ \A k \in DOMAIN output_dir : path[k] = output_dir[k]
EndsWith(name, ext) ==
    /\ Len(name) > Len(ext)
    /\ \A k \in DOMAIN ext : name[Len(name) - Len(ext) + k] = ext[k]
HasRelevantExtension(path) ==
    \E ext \in relevant_extensions : EndsWith(lower(path[Len(path)]), ext)
Qualifies(event) ==
    /\ event.kind \in {"created", "modified", "deleted"}
    /\ ~event.is_directory
    /\ ~HasHiddenPart(event.src_path)
    /\ ~InsideOutputDir(event.src_path)
    /\ HasRelevantExtension(event.src_path)
C10_FilterIsExact ==
    scheduled # "unknown" =>
        /\ scheduled = "yes" <=> Qualifies(fsEvent)
        /\ InsideOutputDir(fsEvent.src_path) => scheduled = "no"

\* The deletion of a file with an upper-case extension below a directory
\* named dist that is not the output directory scheduled a rebuild.
C10_UpperCaseScheduled ==
    /\ scheduled = "yes"
    /\ fsEvent.kind = "deleted"
    /\ fsEvent.src_path = project_root \o <<DOCS, DIST, <<"A",".","M","D">>>>

\* C11: the reply to GET /__livereload__/check?t=T has reload = TRUE exactly
\* when the shared last-rebuild timestamp is strictly later than T
\* milliseconds, a missing or unparsable t counting as 0; it carries the
\* server's clock in whole milliseconds; and handling the request leaves
\* the three timestamps as they were.
ClientMs(ct) == IF ct.kind = "ms" THEN ct.ms ELSE 0
C11_CheckAnswersStrictlyLater ==
    [][(response = NoResponse /\ response' # NoResponse) =>
          /\ response'.reload <=> (http_lrt > ClientMs(sent) * TicksPerMs)
          /\ response'.timestamp = now \div TicksPerMs
          /\ stampVars' = stampVars]_vars

\* A request whose t equals the rebuild's time in milliseconds was answered
\* with reload = FALSE.
C11_EqualTimeNoReload ==
    /\ response # NoResponse
    /\ sent.kind = "ms"
    /\ sent.ms * TicksPerMs = http_lrt
    /\ ~response.reload

\* C12: _find_available_port(p) returns the smallest port of
\* p .. p + MAX_PORT_ATTEMPTS - 1 that can be bound, never a port outside
\* that range, and raises RuntimeError when none of them can be bound.
Bindable(p) == p \in 0..MaxPortNumber /\ p \notin port_busy
BindableInRange == {p \in PortRange(port_preferred) : Bindable(p)}
C12_SmallestBindablePort ==
    port_result # NotCalled =>
        IF BindableInRange = {}
        THEN port_result.raised = "RuntimeError"
        ELSE /\ port_result.raised = "none"
             /\ port_result.port \in BindableInRange
             /\ \A p \in BindableInRange : port_result.port <= p

\* C20: the URL path derived for a Markdown file starts with "/" and ends
\* with "/", contains neither ".md" nor ".html", and for a file named
\* index.md does not contain "index".
C20_UrlPathWellFormed ==
    url_path # <<>> =>
        /\ startswith(url_path, <<"/">>)
        /\ endswith(url_path, <<"/">>)
        /\ ~contains(url_path, DOT_MD)
        /\ ~contains(url_path, DOT_HTML)
        /\ url_file[Len(url_file)] = INDEX \o DOT_MD => ~contains(url_path, INDEX)

\* C16: after K pages with distinct URLs were added since construction or
\* the last clear(), get_document_count() is K and the serialized index is
\* a list of K documents in insertion order carrying each added URL and
\* title; after clear() the count is 0.
DistinctUrls(pages) ==
    \A i, j \in 1..Len(pages) : pages[i].url = pages[j].url => i = j
C16_IndexHoldsEveryPage ==
    DistinctUrls(added) =>
        /\ get_document_count(documents) = Len(added)
        /\ Len(get_index_data(documents)) = Len(added)
        /\ \A i \in 1..Len(added) :
              /\ get_index_data(documents)[i].url = added[i].url
              /\ get_index_data(documents)[i].title = added[i].title

\* Three pages with distinct URLs were added, by both methods.
C16_ThreeDistinctPages ==
    /\ Len(added) = 3
    /\ DistinctUrls(added)
    /\ added[1].url # added[3].url
    /\ documents[1].headings # <<>>
    /\ documents[3].headings = <<>>

\* What the last build did: the files it wrote, the documents it added to
\* the search index, the files whose processing raised.
Built == nbuilds >= 1
WrittenNow == {f.name : f \in {h \in dist.files : h.gen = nbuilds}}
AddedNow == SubSeq(index_json, last.documents_before + 1, Len(index_json))
Raising == {f \in MdFiles : docs_kinds[f] = "unreadable"}
UrlOf(f) == _generate_url_path(f, SiteBase)
WarningsAbout(f) ==
    {i \in 1..Len(result.warnings) : result.warnings[i].file = f}

\* C13: after a build of an existing docs directory, every file whose
\* processing raised has exactly one warning naming it, and the build wrote no
\* HTML file and added no search-index document for it; every other file got
\* its index document, and its HTML file unless rendering the page failed;
\* the result has success = TRUE and pages_built = the number of files
\* processed without raising.
C13_FailedFilesOnlyWarn ==
    (Built /\ docs_exists) =>
        /\ \A f \in Raising :
              /\ Cardinality(WarningsAbout(f)) = 1
              /\ _get_output_path(UrlOf(f)) \notin WrittenNow
              /\ \A i \in 1..Len(AddedNow) : AddedNow[i].url # UrlOf(f)
        /\ \A f \in MdFiles \ Raising :
              /\ \E i \in 1..Len(AddedNow) : AddedNow[i].url = UrlOf(f)
              /\ f \notin last.failing => _get_output_path(UrlOf(f)) \in WrittenNow
        /\ result.success
        /\ result.pages_built = Cardinality(MdFiles \ Raising)

\* C13 witness: a build in which bad.md could not be read and the two other
\* files were built.
C13_OneFileFailed ==
    /\ Built
    /\ docs_exists
    /\ Raising = {BadMd}
    /\ last.failing = {}
    /\ result.pages_built = 2
    /\ Len(result.warnings) = 1

\* C14: after a build of a docs directory in which exactly one file has a
\* front-matter block that is not valid YAML and at least one file is valid,
\* the result has success = TRUE, pages_built > 0 and a warning naming the
\* file with the bad front matter.
BadYaml == {f \in MdFiles : docs_kinds[f] = "bad_yaml"}
C14_BadFrontMatterIsWarned ==
    (/\ Built
     /\ docs_exists
     /\ Cardinality(BadYaml) = 1
     /\ \E f \in MdFiles : docs_kinds[f] = "good")
    => /\ result.success
       /\ result.pages_built > 0
       /\ \A f \in BadYaml : WarningsAbout(f) # {}

\* C15: two consecutive builds with clean = TRUE of the same sources, on the
\* same engine or on a new one, leave the same list in search-index.json:
\* the same documents in the same order with the same fields.
C15_CleanBuildsSameIndex ==
    \A k \in 1..(Len(builds) - 1) :
        (builds[k].clean /\ builds[k + 1].clean)
            => builds[k + 1].index = builds[k].index

\* C17: the result of every build has success = TRUE exactly when its errors
\* are empty, and a build whose only failures are files that could not be
\* processed or pages that could not be generated has no errors: each such
\* failure is a warning.
C17_SuccessIffNoErrors ==
    Built =>
        /\ result.success <=> (result.errors = <<>>)
        /\ docs_exists =>
              /\ result.errors = <<>>
              /\ Len(result.warnings) =
                    Cardinality(Raising) + Cardinality(last.failing \ Raising)

\* C17 witness: a build in which one file could not be processed and the
\* page of another could not be generated succeeded with two warnings.
C17_TwoFailuresStillSuccess ==
    /\ Built
    /\ Raising = {IntroMd}
    /\ last.failing = {IndexMd}
    /\ result.success
    /\ result.errors = <<>>
    /\ Len(result.warnings) = 2
    /\ result.warnings[2].about = "generate"

\* C18: a build of a project without a docs directory returns success =
\* FALSE, exactly one error, which names the missing docs directory, and
\* pages_built = 0, and writes no page and no search index.
PageOutputs == {_get_output_path(UrlOf(f)) : f \in MdFiles}
C18_MissingDocsIsOneError ==
    (Built /\ ~docs_exists) =>
        /\ ~result.success
        /\ result.errors = <<"Docs directory not found">>
        /\ result.pages_built = 0
        /\ WrittenNow \cap (PageOutputs \cup {SearchIndexJson}) = {}
        /\ index_json = <<>>

\* C18 witness: a clean build without a docs directory removed the old
\* output, created the empty output directory and reported the error.
C18_BuiltWithoutDocs ==
    /\ Built
    /\ ~docs_exists
    /\ last.clean
    /\ last.names_before = {OldFile}
    /\ dist = [exists |-> TRUE, files |-> {}]
    /\ Len(result.errors) = 1

\* C19: after build(clean = TRUE) the output directory exists and holds only
\* files written by that build, whether or not it existed before; after
\* build(clean = FALSE) every file that was there before is still there, and
\* every file that was not there before was written by that build.
NamesNow == {f.name : f \in dist.files}
C19_CleanRemovesElseKeeps ==
    Built =>
        /\ dist.exists
        /\ last.clean => \A f \in dist.files : f.gen = nbuilds
        /\ ~last.clean =>
              /\ last.names_before \subseteq NamesNow
              /\ \A f \in dist.files :
                    f.name \notin last.names_before => f.gen = nbuilds

\* C19 witness: a clean build of an existing docs directory removed old.html
\* and wrote the site.
C19_OldFileRemoved ==
    /\ Built
    /\ docs_exists
    /\ last.clean
    /\ OldFile \in last.names_before
    /\ OldFile \notin NamesNow
    /\ <<"index.html">> \in NamesNow

\* C21: for a base path that is not the root and a link that starts with one
\* "/", apply_base_path returns the base without its trailing slashes
\* followed by the link as given, so the base was put in front once; a link
\* that starts with http://, https://, // or # is returned as given for every
\* base path; and with the base "/" every link is returned as given.
NormalizedBase == rstrip(abp_base, "/")
AbsoluteInternal(url) == startswith(url, <<"/">>) /\ ~is_external(url)
C21_BasePrefixedOnce ==
    abp_result.called =>
        /\ (NormalizedBase # <<>> /\ AbsoluteInternal(abp_url)) =>
              /\ abp_result.url = NormalizedBase \o abp_url
              /\ NormalizedBase[Len(NormalizedBase)] # "/"
              /\ SubSeq(abp_result.url, Len(NormalizedBase) + 1,
                        Len(abp_result.url)) = abp_url
        /\ is_external(abp_url) => abp_result.url = abp_url
        /\ abp_base = <<"/">> => abp_result.url = abp_url

\* C21 witness: the base "/d//" was applied to the link "/d/a", which
\* already lies below it.
C21_BaseAppliedToLinkBelowBase ==
    /\ abp_result.called
    /\ abp_base = <<"/", "d", "/", "/">>
    /\ abp_url = <<"/", "d", "/", "a">>
    /\ abp_result.url = <<"/", "d", "/", "d", "/", "a">>

\* The headings of a Markdown document: the lines outside fenced code blocks
\* that are one to six "#"s followed by a space and a text. A fence line
\* opens a code block, the next one closes it.
RECURSIVE DocHeadings(_, _)
DocHeadings(lines, fenced) ==
    IF lines = <<>> THEN <<>>
    ELSE IF startswith(strip(Head(lines), " "), FENCE)
         THEN DocHeadings(Tail(lines), ~fenced)
         ELSE LET found == match_heading(strip(Head(lines), " "),
                               leading_hashes(strip(Head(lines), " ")))
              IN IF found.matched /\ ~fenced
                 THEN <<found>> \o DocHeadings(Tail(lines), fenced)
                 ELSE DocHeadings(Tail(lines), fenced)

\* C22: extract_toc returns one entry per heading of the body, in the order
\* of the document, with the level and text of the heading and an anchor in
\* lower case without spaces; no other line adds an entry.
C22_TocListsTheHeadings ==
    toc_result.called =>
        LET headings == DocHeadings(toc_body, FALSE)
        IN /\ Len(toc_result.items) = Len(headings)
           /\ \A i \in 1..Len(toc_result.items) :
                 /\ i <= Len(headings) =>
                       /\ toc_result.items[i].level = headings[i].level
                       /\ toc_result.items[i].text = headings[i].text
                 /\ toc_result.items[i].anchor = lower(toc_result.items[i].anchor)
                 /\ \A k \in 1..Len(toc_result.items[i].anchor) :
                       toc_result.items[i].anchor[k] # " "

\* C23: after a build, the page at position i of the pages in sorted file
\* order has as prev the page at position i - 1, none for the first, and as
\* next the page at position i + 1, none for the last.
C23_NeighboursByPosition ==
    nav_built =>
        \A i \in 1..Len(nav_pages) :
            /\ nav_context[i].prev =
                  IF i > 1 THEN page_link(nav_pages[i - 1]) ELSE NoPage
            /\ nav_context[i].next =
                  IF i < Len(nav_pages) THEN page_link(nav_pages[i + 1])
                  ELSE NoPage

\* C30: after a clean build without warnings the number of page files in the
\* output directory is pages_built.
C30_OneFilePerPage ==
    nav_built => Cardinality(nav_written) = Len(nav_pages)

\* C24: stop() shuts the listener down only after it has stopped the observer
\* and its join has returned, and from then on the observer hands no event to
\* the handler.
C24_WatcherStoppedBeforeListener ==
    [][/\ (server # "none" /\ server' = "none") =>
             /\ mainPc = "shutdown"
             /\ ~_running
             /\ observer = "none"
       /\ mainPc \in {"shutdown", "stopped"} =>
             \A w \in Watchers : wpc[w] = "idle" => wpc'[w] = "idle"]_vars

\* C24 witness: stop() has returned after a run in which the observer had
\* delivered an event: the observer is gone and the listener is shut down.
C24_StoppedAfterEvents ==
    /\ mainPc = "stopped"
    /\ "watcher" \in everStarted
    /\ nTimers >= 1
    /\ observer = "none"
    /\ server = "none"

\* C25: an href that starts with http://, https://, //, mailto: or # is
\* returned as given; any other href that ends in .md is returned without the
\* extension and without a trailing index segment, with a trailing slash, so
\* it ends in "/" and not in .md; any other href is returned as given.
ExternalHref(link) == is_external(link) \/ startswith(link, MAILTO)
DropIndexSegment(path) ==
    IF path = INDEX THEN <<>>
    ELSE IF endswith(path, <<"/">> \o INDEX)
         THEN SubSeq(path, 1, Len(path) - Len(INDEX))
         ELSE path
CleanLink(link) ==
    LET stem == DropIndexSegment(SubSeq(link, 1, Len(link) - Len(DOT_MD)))
    IN IF endswith(stem, <<"/">>) THEN stem ELSE stem \o <<"/">>
C25_MdLinksRewritten ==
    href_result.called =>
        IF ExternalHref(href) THEN href_result.url = href
        ELSE IF endswith(href, DOT_MD)
             THEN /\ href_result.url = CleanLink(href)
                  /\ endswith(href_result.url, <<"/">>)
                  /\ ~endswith(href_result.url, DOT_MD)
             ELSE href_result.url = href

\* C27: DevServerHTTPHandler.last_rebuild_time never decreases.
C27_HttpStampNeverDecreases ==
    [][http_lrt' >= http_lrt]_vars

\* C29: when start has ended by raising, the observer is not running and no
\* debounce timer is pending.
C29_NothingLeftAfterRaise ==
    mainPc = "raised" =>
        /\ observer # "running"
        /\ \A i \in Timers : timer[i] # "pending"

\* C28: after every build of an existing docs directory, on an engine that
\* has built before or not, search-index.json holds one document per page
\* that build processed: as many documents as pages_built, with different
\* URLs, each the URL of a file processed in that build.
C28_IndexIsThisBuildsPages ==
    (Built /\ docs_exists) =>
        /\ Len(index_json) = result.pages_built
        /\ \A i \in 1..Len(index_json) :
              /\ \E f \in MdFiles \ Raising : index_json[i].url = UrlOf(f)
              /\ \A k \in 1..Len(index_json) :
                    k # i => index_json[k].url # index_json[i].url

\* C26: once the sources change no more, eventually and from then on no
\* rebuild is pending or running and the output directory holds pages made
\* from the sources as they are after the last change.
NoRebuildPendingOrRunning ==
    \A k \in Edits :
        /\ debounce[k] # "pending"
        /\ building[k] \in {"idle", "done"}
C26_EventuallyFresh ==
    <>[](NoRebuildPendingOrRunning /\ out_version = src_version)

====
